---- MODULE Spec2Model ----
(***************************************************************************)
(* StreamInd SDK for Node.js: the per-terminal WebSocketTransport          *)
(* (src/src/transport.ts) driven through the SDK registry (src/src/sdk.ts).*)
(*                                                                         *)
(* A transport is a record; every method and event handler of the class is *)
(* an operator from transport record to transport record, composed the way *)
(* the code calls them.  Callbacks the handler invokes, promises it        *)
(* settles and frames it writes are appended to the record's log, which is *)
(* cleared at the start of every step, so the log of a state is what the   *)
(* last handler did.                                                       *)
(*                                                                         *)
(* Node runs one handler at a time; promise reactions are microtasks and   *)
(* run before the next event, timer or caller step, so a step is a handler *)
(* together with the reactions it triggers.                                *)
(***************************************************************************)
EXTENDS Integers, Sequences, FiniteSets, TLC

\* ---- bounds of the model ------------------------------------------------
\* underlying connections of one transport that exist at the same time
MaxSockets == 2
\* cap of reconnectAttempts when the configured maximum is unlimited
AttemptCap == 2
\* cap of the errors counter
MaxErrors == 2
\* cap of the audioSent counter
MaxSent == 1
\* pending timers of one kind that no handle names
MaxOrphans == 1
\* transport objects the registry creates
MaxTransports == 1
\* terminal ids (and transport objects) of the registry with several terminals
MaxTerminals == 2
\* signals of one sendSignalsBatch
MaxBatch == 2
\* global callbacks the application sets for one category, one after another
MaxGlobals == 2
\* connect attempts that fail or time out before every attempt is answered by
\* an open event
MaxFailures == 1
\* bytes of the payloads of sendBinaryData that are enumerated byte by byte
MaxPayload == 5

\* ---- ErrorCode (src/unnamed/part_000) -------------------------------------
\* the values of the enum
ErrorCodes == (0..12) \cup {99}
OK == 0
ALREADY_CONNECTED == 5
NOT_CONNECTED == 4
CONNECTION_FAILED == 6
CONNECTION_TIMEOUT == 7
SIGNAL_TOO_LARGE == 9
SEND_FAILED == 10
TERMINAL_NOT_FOUND == 12
ALREADY_INITIALIZED == 2
INTERNAL_ERROR == 99

\* largest payload length the 2-byte length field of the binary header holds
MaxBinaryLen == 65535

\* config.maxMessageSize: the default, 10 * 1024 * 1024 bytes
MaxMessageSize == 10485760

TerminalIds == {"t1"}
Transports == 1..MaxTransports
Sockets == 1..MaxSockets

\* values of config.maxReconnectAttempts a terminal is registered with
\* (-1 is the default: unlimited)
MaxReconnectAttemptsValues == {-1, 1}

\* payload lengths handed to sendBinaryData
BinaryLens == {0, 65535, 65536}

\* byte lengths of the serialized JSON of the signals handed to sendSignal
SignalSizes == {MaxMessageSize - 1, MaxMessageSize, MaxMessageSize + 1}

\* terminals:  SDK.terminals, terminal id -> transport object (0: no entry)
\* transports: the WebSocketTransport objects
\* last:       the step that led to the state
\* globals:    SDK.global*Callback, category -> the callback set (0: null)
\* batch:      the connectAll() in progress: what it awaits of each transport
VARIABLES terminals, transports, last, globals, batch, computed

vars == <<terminals, transports, last, globals, batch, computed>>

\* ---- the log of one step --------------------------------------------------
Ev(e, a) == [ev |-> e, arg |-> a]

Emit(s, e, a) == [s EXCEPT !.log = Append(@, Ev(e, a))]

Logged(s, e, a) == \E i \in 1..Len(s.log) : s.log[i] = Ev(e, a)

Count(s, e) == Cardinality({i \in 1..Len(s.log) : s.log[i].ev = e})

\* ---- callbacks: invoked only when installed (if (this.onError) ...) --------
\* s.cbs is the set of categories whose callback field is not null.
\* s.wrapper[cat] tells what the installed callback is: NoWrapper when it is
\* the application's own function (or none is installed), else the arrow
\* function the SDK built around a global callback: id is the terminalId the
\* closure holds; g is the global callback the closure holds (setGlobal*), or
\* 0 when the closure reads this.global*Callback when invoked (registerTerminal)
NoWrapper == [id |-> "", g |-> 0]

\* s.latest[cat] is history, not a field of the class: the callback the
\* application installed last for category cat of the terminal, by a
\* set-callback call on the terminal (Own), by setting a global callback g
\* while the terminal was registered or before it was (g); 0 when none
Own == -1

\* the wrapper, when the installed callback is one, calls the global callback
\* with its terminalId
viaWrapper(s, cat) ==
  IF s.wrapper[cat] = NoWrapper
    THEN s
    ELSE Emit(s, "global",
              [cat |-> cat, id |-> s.wrapper[cat].id,
               g |-> IF s.wrapper[cat].g # 0 THEN s.wrapper[cat].g ELSE globals[cat]])

onError(s, code) ==
  IF "error" \in s.cbs THEN viaWrapper(Emit(s, "onError", code), "error") ELSE s

onConnected(s, flag) ==
  IF "connection" \in s.cbs
    THEN viaWrapper(Emit(s, "onConnected", flag), "connection") ELSE s

onClose(s, code) ==
  IF "close" \in s.cbs THEN viaWrapper(Emit(s, "onClose", code), "close") ELSE s

\* the directive callback, behind config.enableDirectiveReceiving
onDirective(s) ==
  IF "directive" \in s.cbs /\ s.enableDirectiveReceiving
    THEN viaWrapper(Emit(s, "onDirective", 0), "directive") ELSE s

\* the binary-data callback (no global callback exists for it)
onAudioData(s) == IF "audio" \in s.cbs THEN Emit(s, "onAudioData", 0) ELSE s

\* ---- one underlying connection and the connect() call that made it -------
\* state: free | connecting | aborting | open | closing
\*   connecting: handshake in progress; open or error+close can follow
\*   aborting:   close() was called during the handshake; error+close follows
\*   open:       established; message, error and close can follow
\*   closing:    close() was called or an error was emitted; close follows
\* timeout: the connect() call's timeout timer is pending
\* waiter:  who awaits the promise connect() returned while it is pending:
\*          user (SDK.connect) | batch (SDK.connect called by connectAll) |
\*          timer (the reconnect timer's callback);
\*          none once the promise is settled (resolve and reject then do nothing)
FreeSock == [state |-> "free", timeout |-> FALSE, waiter |-> "none"]

\* the callback categories a global callback exists for
Categories == {"connection", "directive", "error", "close"}

\* ---- WebSocketTransport: fields after construction -----------------------
NewTransport(maxAttempts) ==
  [ maxReconnectAttempts |-> maxAttempts,
    ws |-> 0,
    connected |-> FALSE,
    reconnectAttempts |-> 0,
    activity |-> FALSE,
    shouldReconnect |-> TRUE,
    heartbeatTimer |-> "null",
    hbOrphans |-> 0,
    reconnectTimer |-> "null",
    rcOrphans |-> 0,
    cbs |-> {},
    wrapper |-> [c \in Categories |-> NoWrapper],
    latest |-> [c \in Categories |-> 0],
    enableDirectiveReceiving |-> TRUE,
    errors |-> 0,
    audioSent |-> 0,
    signalsSent |-> 0,
    directivesReceived |-> 0,
    audioReceived |-> 0,
    socks |-> [k \in Sockets |-> FreeSock],
    log |-> <<>> ]

\* a transport object the registry has not created
NoTransport == [NewTransport(-1) EXCEPT !.shouldReconnect = FALSE]

\* ---- timers ---------------------------------------------------------------
\* A timer handle field is "pending" when the timer it names has neither fired
\* nor been cleared, and "null" otherwise: the code only tests a handle for
\* truth to clear it, and clearing a fired or cleared timer does nothing, so
\* a handle of such a timer and null are one value here.
\* hbOrphans / rcOrphans count pending timers no handle field names any more.

\* clearTimeout(handle): a pending timer is cancelled, anything else is a no-op
clearTimeout(h) == "null"

\* this.reconnectTimer = setTimeout(...): the timer the handle named stays
\* pending if it was, but nothing names it
setReconnectTimer(s) ==
  [s EXCEPT !.reconnectTimer = "pending",
            !.rcOrphans = IF s.reconnectTimer = "pending" THEN @ + 1 ELSE @]

\* this.heartbeatTimer = setTimeout(sendHeartbeat, ...)
setHeartbeatTimer(s) ==
  [s EXCEPT !.heartbeatTimer = "pending",
            !.hbOrphans = IF s.heartbeatTimer = "pending" THEN @ + 1 ELSE @]

\* a startHeartbeat() that does not clear the timer the handle names
startHeartbeat_keepsTimer(s) == setHeartbeatTimer(s)

\* startHeartbeat(): clears the timer the handle names, then sets a new one
startHeartbeat(s) ==
  setHeartbeatTimer(
    IF s.heartbeatTimer # "null"
      THEN [s EXCEPT !.heartbeatTimer = clearTimeout(@)]
      ELSE s)

\* a startReconnect() that sets no timer
startReconnect_never(s) == s

\* startReconnect(): the max-attempts check, then the reconnect timer.
\* calculateBackoffDelay() only chooses the delay, which no state records.
startReconnect(s) ==
  IF s.maxReconnectAttempts > 0 /\ s.reconnectAttempts >= s.maxReconnectAttempts
    THEN s
    ELSE setReconnectTimer(s)

\* handleDisconnect() that leaves the heartbeat timer running
handleDisconnect_keepsHeartbeat(s) ==
  IF ~s.connected
    THEN s
    ELSE LET s1 == [s EXCEPT !.connected = FALSE, !.ws = 0]
             s3 == onConnected(s1, 0)
         IN  IF s3.shouldReconnect THEN startReconnect(s3) ELSE s3

\* handleDisconnect()
handleDisconnect(s) ==
  IF ~s.connected
    THEN s
    ELSE LET s1 == [s EXCEPT !.connected = FALSE, !.ws = 0]
             s2 == IF s1.heartbeatTimer # "null"
                     THEN [s1 EXCEPT !.heartbeatTimer = "null"]
                     ELSE s1
             s3 == onConnected(s2, 0)
         IN  IF s3.shouldReconnect THEN startReconnect(s3) ELSE s3

\* ---- promises of connect() ------------------------------------------------
\* SDK.connect's catch: return error.code || ErrorCode.CONNECTION_FAILED
sdkConnectCode(code) == IF code # 0 THEN code ELSE CONNECTION_FAILED

\* an SDK.connect without its catch: the rejection goes on to the caller
settled_uncaught(s, o, code) ==
  LET ret == IF code = OK THEN OK ELSE sdkConnectCode(code) IN
  CASE o = "user" -> IF code = OK
                       THEN Emit(Emit(s, "settle_user", code), "sdk_connect", ret)
                       ELSE Emit(Emit(s, "settle_user", code), "sdk_connect_rejects", code)
    [] o = "batch" -> Emit(Emit(Emit(s, "settle_user", code), "sdk_connect", ret),
                           "connectAll_result", ret)
    [] OTHER -> Emit(s, "settle_timer", code)

\* what the awaiting caller sees when the promise of origin o settles with
\* code: SDK.connect returns; the reconnect timer's callback returns or catches
settled(s, o, code) ==
  LET ret == IF code = OK THEN OK ELSE sdkConnectCode(code) IN
  CASE o = "user" -> Emit(Emit(s, "settle_user", code), "sdk_connect", ret)
    [] o = "batch" -> Emit(Emit(Emit(s, "settle_user", code), "sdk_connect", ret),
                           "connectAll_result", ret)
    [] OTHER -> Emit(s, "settle_timer", code)

\* resolve() / reject(new StreamIndError(code)) of the promise of connection k:
\* a promise settles once, later calls are no-ops
settle(s, k, code) ==
  IF s.socks[k].waiter = "none"
    THEN s
    ELSE settled([s EXCEPT !.socks[k].waiter = "none"], s.socks[k].waiter, code)

\* a catch that runs for whoever awaits the rejected connect()
catchReconnect_anyWaiter(s0, s1, k) ==
  IF s0.socks[k].waiter # "none" /\ s1.socks[k].waiter = "none"
    THEN startReconnect(s1)
    ELSE s1

\* the reconnect timer callback's catch: startReconnect() when the connect()
\* it awaits, of connection k, was rejected by the handler (the timeout or the
\* error handler) that led from s0 to s1
catchReconnect(s0, s1, k) ==
  IF s0.socks[k].waiter = "timer" /\ s1.socks[k].waiter = "none"
    THEN startReconnect(s1)
    ELSE s1

\* this.ws: 0 is null, a number of Sockets is that connection, Closed is a
\* connection whose close event was delivered (close() and send() on it do
\* nothing but fail)
Closed == -1

\* a connection whose close event was delivered is gone; its slot is reused
release(s, k) ==
  [s EXCEPT !.socks[k] = FreeSock, !.ws = IF @ = k THEN Closed ELSE @]

FreeSlots(s) == {k \in Sockets : s.socks[k].state = "free"}

NewSlot(s) == CHOOSE k \in FreeSlots(s) : \A j \in FreeSlots(s) : k <= j

\* connect() without the ALREADY_CONNECTED check
connect_unchecked(s, o, throws) ==
  LET s1 == [s EXCEPT !.shouldReconnect = TRUE]
      k == NewSlot(s1)
  IN  IF FreeSlots(s1) = {}
        THEN settled(s, o, ALREADY_CONNECTED)
        ELSE [s1 EXCEPT !.ws = k,
                        !.socks[k] = [state |-> "connecting", timeout |-> TRUE,
                                      waiter |-> o]]

\* ---- connect() ------------------------------------------------------------
\* throws: new WebSocket(url) throws (the catch branch of connect)
connect(s, o, throws) ==
  IF s.connected
    THEN settled(s, o, ALREADY_CONNECTED)
    ELSE LET s1 == [s EXCEPT !.shouldReconnect = TRUE] IN
         IF throws
           THEN LET s2 == [s1 EXCEPT !.errors = @ + 1]
                    s3 == onConnected(onError(s2, CONNECTION_FAILED), 0)
                    s4 == settled(s3, o, CONNECTION_FAILED)
                IN  IF o = "timer" THEN startReconnect(s4) ELSE s4
           ELSE LET k == NewSlot(s1) IN
                [s1 EXCEPT !.ws = k,
                           !.socks[k] = [state |-> "connecting", timeout |-> TRUE,
                                         waiter |-> o]]

\* a timeout that rejects without counting the error
connectTimeout_uncounted(s, k) ==
  LET s1 == [s EXCEPT !.socks[k].timeout = FALSE]
      s2 == onConnected(onError(s1, CONNECTION_TIMEOUT), 0)
      s3 == settle(s2, k, CONNECTION_TIMEOUT)
  IN  catchReconnect(s, s3, k)

\* the timeout timer of connection k fires
connectTimeout(s, k) ==
  LET s1 == [s EXCEPT !.socks[k].timeout = FALSE, !.errors = @ + 1]
      s2 == onConnected(onError(s1, CONNECTION_TIMEOUT), 0)
      s3 == settle(s2, k, CONNECTION_TIMEOUT)
  IN  catchReconnect(s, s3, k)

\* an open handler that keeps reconnectAttempts
openHandler_keepsAttempts(s, k) ==
  LET s1 == [s EXCEPT !.socks[k].timeout = FALSE,
                      !.socks[k].state = "open",
                      !.connected = TRUE,
                      !.activity = FALSE]
      s2 == onConnected(s1, 1)
      s3 == startHeartbeat(s2)
  IN  settle(s3, k, OK)

\* ws.on('open')
openHandler(s, k) ==
  LET s1 == [s EXCEPT !.socks[k].timeout = FALSE,
                      !.socks[k].state = "open",
                      !.connected = TRUE,
                      !.reconnectAttempts = 0,
                      !.activity = FALSE]
      s2 == onConnected(s1, 1)
      s3 == startHeartbeat(s2)
  IN  settle(s3, k, OK)

\* ws.on('error')
errorHandler(s, k) ==
  LET s1 == [s EXCEPT !.socks[k].timeout = FALSE, !.errors = @ + 1]
      s2 == onError(s1, CONNECTION_FAILED)
      s3 == IF ~s2.connected THEN onConnected(s2, 0) ELSE s2
  IN  settle(s3, k, CONNECTION_FAILED)

\* ws.on('close')
closeHandler(s, k) == handleDisconnect(onClose(s, 1006))

\* ws.close(1000, ...) on connection k
wsClose(s, k) ==
  IF k \notin Sockets THEN s
  ELSE [s EXCEPT !.socks[k].state =
          CASE @ = "connecting" -> "aborting"
            [] @ = "open" -> "closing"
            [] OTHER -> @]

\* ---- disconnect() ---------------------------------------------------------
\* a disconnect() that leaves the transport Connected
disconnect_staysConnected(s) ==
  LET s1 == [s EXCEPT !.shouldReconnect = FALSE]
      s2 == IF s1.heartbeatTimer # "null"
              THEN [s1 EXCEPT !.heartbeatTimer = "null"] ELSE s1
      s3 == IF s2.reconnectTimer # "null"
              THEN [s2 EXCEPT !.reconnectTimer = "null"] ELSE s2
  IN  Emit(onConnected(onClose(s3, 1000), 0), "sdk_disconnect", OK)

disconnect(s) ==
  LET s1 == [s EXCEPT !.shouldReconnect = FALSE]
      s2 == IF s1.heartbeatTimer # "null"
              THEN [s1 EXCEPT !.heartbeatTimer = "null"] ELSE s1
      s3 == IF s2.reconnectTimer # "null"
              THEN [s2 EXCEPT !.reconnectTimer = "null"] ELSE s2
      s4 == IF s3.ws # 0 THEN [wsClose(s3, s3.ws) EXCEPT !.ws = 0] ELSE s3
      s5 == [s4 EXCEPT !.connected = FALSE]
  IN  Emit(onConnected(onClose(s5, 1000), 0), "sdk_disconnect", OK)

\* ---- sending ---------------------------------------------------------------
\* sendMessage / sendBinary: the promise is rejected when the handle is absent
\* or the transport is not connected; else ws.send reports success only on
\* an open connection, and there the write itself succeeds or fails (ok)
sendSucceeds(s, ok) ==
  /\ s.ws \in Sockets
  /\ s.connected
  /\ s.socks[s.ws].state = "open"
  /\ ok

\* ---- the frame of sendBinaryData -------------------------------------------
\* a ^ b of two bytes
RECURSIVE xorBits(_, _, _)
xorBits(a, b, n) ==
  IF n = 0 THEN 0
  ELSE (((a % 2) + (b % 2)) % 2) + 2 * xorBits(a \div 2, b \div 2, n - 1)

xor(a, b) == xorBits(a, b, 8)

\* toUpperCase() of one ASCII character, by its code
toUpperCase(c) == IF c >= 97 /\ c <= 122 THEN c - 32 ELSE c

\* dataType.toUpperCase().substring(0, 7) written into Buffer.alloc(7) in
\* the 'ascii' encoding with every character lost
dataTypeBytes_blank(dataType) == [i \in 1..7 |-> 0]

\* dataType.toUpperCase().substring(0, 7) written into Buffer.alloc(7) in
\* the 'ascii' encoding, which keeps the low byte of each character code.
\* dataType is the sequence of the character codes of the tag.
dataTypeBytes(dataType) ==
  LET upper == [i \in 1..Len(dataType) |-> toUpperCase(dataType[i])]
      dataTypeStr == SubSeq(upper, 1, IF Len(upper) < 7 THEN Len(upper) ELSE 7)
  IN  [i \in 1..7 |-> IF i <= Len(dataTypeStr) THEN dataTypeStr[i] % 256 ELSE 0]

\* a masking that uses the first byte of the key for every byte of the data
maskedData_oneByteKey(data, maskKey) ==
  [i \in 1..Len(data) |-> xor(data[i], maskKey[1])]

\* data[i] ^ maskKey[i % 4] for every byte of data (the code counts from 0)
maskedData(data, maskKey) ==
  [i \in 1..Len(data) |-> xor(data[i], maskKey[((i - 1) % 4) + 1])]

\* protocolData of sendBinaryData for data of at most 65535 bytes: 0x82, the
\* length in two bytes, the seven bytes of the data type, the four bytes of
\* the mask key, the masked data
protocolData(data, dataType, maskKey) ==
  <<130, (Len(data) \div 256) % 256, Len(data) % 256>>
    \o dataTypeBytes(dataType) \o maskKey \o maskedData(data, maskKey)

\* SDK.sendBinaryData's catch: return error.code || ErrorCode.SEND_FAILED
sdkSendCode(code) == IF code # 0 THEN code ELSE SEND_FAILED

\* the catch block of sendBinaryData
sendBinaryCatch(s) ==
  LET s1 == [s EXCEPT !.errors = @ + 1]
      s2 == onError(s1, SEND_FAILED)
  IN  Emit(Emit(s2, "throw", SEND_FAILED), "sdk_send", sdkSendCode(SEND_FAILED))

\* sendBinaryData(data, dataType) with data.length = len
sendBinaryData(s, len, ok) ==
  IF ~s.connected
    THEN Emit(Emit(s, "throw", NOT_CONNECTED), "sdk_send", sdkSendCode(NOT_CONNECTED))
    ELSE IF len > MaxBinaryLen
           THEN sendBinaryCatch(s)
           ELSE IF sendSucceeds(s, ok)
                  THEN Emit(Emit([s EXCEPT !.activity = TRUE, !.audioSent = @ + 1],
                                 "write", 14 + len),
                            "sdk_send", OK)
                  ELSE sendBinaryCatch(s)

\* a catch block of sendSignal that takes a failed write for the loss of the
\* connection
sendSignalCatch_disconnects(s) ==
  LET s1 == [s EXCEPT !.errors = @ + 1, !.connected = FALSE]
      s2 == onError(s1, SEND_FAILED)
  IN  Emit(Emit(s2, "throw", SEND_FAILED), "sdk_send", sdkSendCode(SEND_FAILED))

\* the catch block of sendSignal
sendSignalCatch(s) ==
  LET s1 == [s EXCEPT !.errors = @ + 1]
      s2 == onError(s1, SEND_FAILED)
  IN  Emit(Emit(s2, "throw", SEND_FAILED), "sdk_send", sdkSendCode(SEND_FAILED))

\* sendSignal that rejects a signal of exactly maxMessageSize bytes
sendSignal_sizeInclusive(s, size, serializable, ok) ==
  IF ~s.connected
    THEN Emit(Emit(s, "throw", NOT_CONNECTED), "sdk_send", sdkSendCode(NOT_CONNECTED))
    ELSE IF ~serializable
           THEN Emit(Emit(s, "throw", 0), "sdk_send", sdkSendCode(0))
           ELSE IF size >= MaxMessageSize
                  THEN Emit(Emit(s, "throw", SIGNAL_TOO_LARGE),
                            "sdk_send", sdkSendCode(SIGNAL_TOO_LARGE))
                  ELSE IF sendSucceeds(s, ok)
                         THEN Emit(Emit([s EXCEPT !.activity = TRUE,
                                                  !.signalsSent = @ + 1],
                                        "write", size),
                                   "sdk_send", OK)
                         ELSE sendSignalCatch(s)

\* sendSignal(signal): size is the byte length of signal.toJSON();
\* serializable is false when toJSON() throws (JSON.stringify of a payload
\* that cannot be serialized): an error without a code, thrown before the try
sendSignal(s, size, serializable, ok) ==
  IF ~s.connected
    THEN Emit(Emit(s, "throw", NOT_CONNECTED), "sdk_send", sdkSendCode(NOT_CONNECTED))
    ELSE IF ~serializable
           THEN Emit(Emit(s, "throw", 0), "sdk_send", sdkSendCode(0))
           ELSE IF size > MaxMessageSize
                  THEN Emit(Emit(s, "throw", SIGNAL_TOO_LARGE),
                            "sdk_send", sdkSendCode(SIGNAL_TOO_LARGE))
                  ELSE IF sendSucceeds(s, ok)
                         THEN Emit(Emit([s EXCEPT !.activity = TRUE,
                                                  !.signalsSent = @ + 1],
                                        "write", size),
                                   "sdk_send", OK)
                         ELSE sendSignalCatch(s)

\* ---- receiving -------------------------------------------------------------
\* what a message event carries: a binary frame, or a text frame that is
\*   directive: JSON with name and id
\*   other:     JSON of an object without them
\*   invalid:   text JSON.parse (or the test of data.name) throws on
MessageKinds == {"binary", "directive", "other", "invalid"}

\* a handleTextMessage that reports what it cannot parse without counting it
handleTextMessage_uncounted(s, kind) ==
  CASE kind = "directive" -> onDirective([s EXCEPT !.directivesReceived = @ + 1])
    [] kind = "other" -> s
    [] OTHER -> onError(s, INTERNAL_ERROR)

\* handleTextMessage(message)
handleTextMessage(s, kind) ==
  CASE kind = "directive" -> onDirective([s EXCEPT !.directivesReceived = @ + 1])
    [] kind = "other" -> s
    [] OTHER -> onError([s EXCEPT !.errors = @ + 1], INTERNAL_ERROR)

\* a message handler that gives the connection up over a text frame it
\* cannot parse
messageHandler_dropsInvalid(s, kind) ==
  LET s1 == [s EXCEPT !.activity = TRUE] IN
  IF kind = "binary"
    THEN onAudioData([s1 EXCEPT !.audioReceived = @ + 1])
    ELSE IF kind = "invalid"
           THEN handleDisconnect(handleTextMessage(s1, kind))
           ELSE handleTextMessage(s1, kind)

\* ws.on('message')
messageHandler(s, kind) ==
  LET s1 == [s EXCEPT !.activity = TRUE] IN
  IF kind = "binary"
    THEN onAudioData([s1 EXCEPT !.audioReceived = @ + 1])
    ELSE handleTextMessage(s1, kind)

\* ---- statistics ------------------------------------------------------------
\* a resetStatistics() that keeps the count of errors
resetStatistics_keepsErrors(s) ==
  [s EXCEPT !.signalsSent = 0, !.audioSent = 0, !.directivesReceived = 0,
            !.audioReceived = 0]

\* resetStatistics()
resetStatistics(s) ==
  [s EXCEPT !.signalsSent = 0, !.audioSent = 0, !.directivesReceived = 0,
            !.audioReceived = 0, !.errors = 0]

\* getStatistics(): the counters (uptimeSeconds, a time, has no place here)
getStatistics(s) ==
  [signalsSent |-> s.signalsSent, audioSent |-> s.audioSent,
   directivesReceived |-> s.directivesReceived, audioReceived |-> s.audioReceived,
   errors |-> s.errors, connected |-> s.connected,
   reconnectAttempts |-> s.reconnectAttempts]

\* ---- heartbeat ------------------------------------------------------------
\* a pending timer fires: the one the handle names, or an orphan
fireHeartbeatTimer(s, which) ==
  IF which = "handle"
    THEN [s EXCEPT !.heartbeatTimer = "null"]
    ELSE [s EXCEPT !.hbOrphans = @ - 1]

\* a tick that takes every connection for idle
isIdle_always(s) == TRUE

\* now - this.lastActivity >= heartbeatIntervalMs at a tick: nothing was sent
\* or received since the tick before, which was heartbeatIntervalMs ago
isIdle(s) == ~s.activity

\* a sendHeartbeat that does not catch the failure of a keepalive
sendHeartbeat_ignoresFailure(s, ok) ==
  IF ~s.connected
    THEN s
    ELSE LET idle == isIdle(s)
             sent == idle /\ sendSucceeds(s, ok)
             s1 == IF sent THEN Emit(s, "ping", 0) ELSE s
         IN  setHeartbeatTimer([s1 EXCEPT !.activity = FALSE])

\* sendHeartbeat: a keepalive when nothing was sent or received since the last
\* tick, the next tick, then the catch of a failed keepalive
sendHeartbeat(s, ok) ==
  IF ~s.connected
    THEN s
    ELSE LET idle == isIdle(s)
             sent == idle /\ sendSucceeds(s, ok)
             s1 == IF sent THEN Emit(s, "ping", 0) ELSE s
             s2 == setHeartbeatTimer([s1 EXCEPT !.activity = FALSE])
         IN  IF idle /\ ~sent THEN handleDisconnect(s2) ELSE s2

\* ---- reconnect timer ------------------------------------------------------
fireReconnectTimer(s, which) ==
  IF which = "handle"
    THEN [s EXCEPT !.reconnectTimer = "null"]
    ELSE [s EXCEPT !.rcOrphans = @ - 1]

\* the callback startReconnect hands to setTimeout
reconnectCallback(s, throws) ==
  IF ~s.shouldReconnect \/ s.connected
    THEN s
    ELSE connect([s EXCEPT !.reconnectAttempts = @ + 1], "timer", throws)

\* ---- the system ------------------------------------------------------------
Callbacks == {"connection", "error", "close"}

\* last: the step that led to the state. op names it, t is the terminal id
\* of an SDK call that reached no transport and ret what that call returned,
\* x is the transport that took the step, sock is the connection the step
\* is about as the step found it, arg is the length of the payload of a send,
\* cat the category of a set-callback call or the kind of a message
\* results is what a connectAll or disconnectAll that completed in the step
\* returned, as pairs <<terminal id, code>>; codes is what a sendSignalsBatch
\* returned, index -> code
NoOp ==
  [op |-> "init", t |-> "", x |-> 0, ret |-> -1, sock |-> FreeSock, arg |-> 0,
   cat |-> "", results |-> {}, codes |-> <<>>]

\* computed: the input and the output of the frame encoding or the backoff
\* computation that ran last; Nothing where no step is one of them
Nothing == [fn |-> "none"]

\* of transport x, connectAll awaits nothing (id "") or the SDK.connect of
\* terminal id, which has yielded code (-1: nothing yet)
NoResult == [id |-> "", code |-> -1]

Init ==
  /\ terminals = [t \in TerminalIds |-> 0]
  /\ transports = [x \in Transports |-> NoTransport]
  /\ last = NoOp
  /\ globals = [c \in Categories |-> 0]
  /\ batch = [x \in Transports |-> NoResult]
  /\ computed = Nothing

InBounds(s) ==
  /\ s.errors <= MaxErrors
  /\ s.audioSent <= MaxSent
  /\ s.signalsSent <= MaxSent
  /\ s.directivesReceived <= MaxSent
  /\ s.audioReceived <= MaxSent
  /\ s.reconnectAttempts <= AttemptCap
  /\ s.rcOrphans <= MaxOrphans
  /\ s.hbOrphans <= MaxOrphans

Registered(x) == \E t \in DOMAIN terminals : terminals[t] = x

\* the transports as the next handler finds them: the log is the last step's
Cleared == [y \in DOMAIN transports |-> [transports[y] EXCEPT !.log = <<>>]]

\* the transport x as the next handler finds it
Start(x) == [transports[x] EXCEPT !.log = <<>>]

\* The connections of a transport are interchangeable but for the one this.ws
\* names: a state is kept with its connections in a fixed order.
stateRank(st) ==
  CASE st = "free" -> 0 [] st = "connecting" -> 1 [] st = "aborting" -> 2
    [] st = "open" -> 3 [] st = "closing" -> 4

sockKey(s, k) ==
  LET c == s.socks[k] IN
  (((stateRank(c.state) * 2 + (IF c.timeout THEN 1 ELSE 0)) * 4
      + (CASE c.waiter = "none" -> 0 [] c.waiter = "user" -> 1
           [] c.waiter = "timer" -> 2 [] c.waiter = "batch" -> 3)) * 2
      + (IF s.ws = k THEN 1 ELSE 0))

\* connections i and i+1 change places when the later one has the larger key
swapAt(s, i) ==
  IF sockKey(s, i) >= sockKey(s, i + 1)
    THEN s
    ELSE [s EXCEPT !.socks[i] = s.socks[i + 1],
                   !.socks[i + 1] = s.socks[i],
                   !.ws = IF @ = i THEN i + 1 ELSE IF @ = i + 1 THEN i ELSE @]

RECURSIVE pass(_, _, _)
pass(s, i, n) == IF i >= n THEN s ELSE pass(swapAt(s, i), i + 1, n)

RECURSIVE sort(_, _)
sort(s, n) == IF n <= 1 THEN s ELSE sort(pass(s, 1, n), n - 1)

\* larger keys first
Canon(s) == sort(s, MaxSockets)

\* ---- connectAll(): results[terminalId] = code as each SDK.connect returns,
\* and Promise.all(promises) once every one of them has
\* the awaited results after transport x has taken a step that made it v
Collect(x, v) ==
  IF \E i \in 1..Len(v.log) : v.log[i].ev = "connectAll_result"
    THEN [batch EXCEPT ![x].code =
            v.log[CHOOSE i \in 1..Len(v.log) : v.log[i].ev = "connectAll_result"].arg]
    ELSE batch

\* connectAll is awaiting results
Awaiting(b) == \E y \in DOMAIN b : b[y].id # ""

\* a connectAll that returns with the first SDK.connect that does
Returned_onFirst(b) == Awaiting(b) /\ \E y \in DOMAIN b : b[y].id # "" /\ b[y].code # -1

\* every awaited SDK.connect has returned: connectAll returns
Returned(b) == Awaiting(b) /\ \A y \in DOMAIN b : b[y].id # "" => b[y].code # -1

Results(b) == {<<b[y].id, b[y].code>> : y \in {z \in DOMAIN b : b[z].id # ""}}

\* transport x takes the step op (on its connection k, with argument arg, of
\* kind cat) and becomes s1
StepOf(x, op, k, arg, cat, s1) ==
  \E v \in {s1} :
    /\ InBounds(v)
    /\ transports' = [Cleared EXCEPT ![x] = Canon(v)]
    /\ batch' = IF Returned(Collect(x, v)) THEN [y \in DOMAIN batch |-> NoResult]
                                          ELSE Collect(x, v)
    /\ last' = [NoOp EXCEPT !.op = op, !.x = x, !.arg = arg, !.cat = cat,
                             !.sock = IF k \in Sockets
                                        THEN transports[x].socks[k] ELSE FreeSock,
                             !.results = IF Returned(Collect(x, v))
                                           THEN Results(Collect(x, v)) ELSE {}]
    /\ UNCHANGED <<terminals, globals, computed>>

\* a step that has no kind
Step(x, op, k, arg, s1) == StepOf(x, op, k, arg, "", s1)

\* an SDK call on terminal id t that returns ret without reaching a transport
Return(op, t, ret) ==
  /\ last' = [NoOp EXCEPT !.op = op, !.t = t, !.ret = ret]
  /\ transports' = Cleared
  /\ UNCHANGED <<terminals, globals, batch, computed>>

\* a transport nothing will ever call again: no connection and no timer
Inert(s) ==
  /\ \A k \in Sockets : s.socks[k] = FreeSock
  /\ s.heartbeatTimer = "null" /\ s.hbOrphans = 0
  /\ s.reconnectTimer = "null" /\ s.rcOrphans = 0

\* places for a new transport object: those of objects the registry does not
\* hold and nothing else refers to
FreeTransports == {x \in DOMAIN transports : ~Registered(x) /\ Inert(transports[x])}

\* a registerTerminal that installs no global callback
applyGlobals_none(s, t) == s

\* the callbacks registerTerminal installs on the transport of terminal t:
\* for every global callback set, a wrapper that reads it when invoked
applyGlobals(s, t) ==
  [s EXCEPT !.cbs = @ \cup {c \in Categories : globals[c] # 0},
            !.wrapper = [c \in Categories |->
                           IF globals[c] # 0 THEN [id |-> t, g |-> 0] ELSE @[c]]]

\* registerTerminal without the has() check: the entry of a registered id is
\* replaced by a new transport
RegisterTerminal_replaces(t, m) ==
  IF terminals[t] # 0
    THEN /\ terminals' = terminals
         /\ transports' = [Cleared EXCEPT ![terminals[t]] =
                             [applyGlobals(NewTransport(m), t) EXCEPT !.latest = globals]]
         /\ last' = [NoOp EXCEPT !.op = "registerTerminal", !.t = t,
                                  !.x = terminals[t], !.ret = OK]
         /\ UNCHANGED <<globals, batch, computed>>
    ELSE /\ FreeTransports # {}
         /\ LET x == CHOOSE y \in FreeTransports : \A z \in FreeTransports : y <= z IN
            /\ terminals' = [terminals EXCEPT ![t] = x]
            /\ transports' = [Cleared EXCEPT ![x] =
                                [applyGlobals(NewTransport(m), t) EXCEPT !.latest = globals]]
            /\ last' = [NoOp EXCEPT !.op = "registerTerminal", !.t = t, !.x = x, !.ret = OK]
            /\ UNCHANGED <<globals, batch, computed>>

\* SDK.registerTerminal(t, config) with config.maxReconnectAttempts = m
RegisterTerminal(t, m) ==
  IF terminals[t] # 0
    THEN Return("registerTerminal", t, ALREADY_INITIALIZED)
    ELSE /\ FreeTransports # {}
         /\ LET x == CHOOSE y \in FreeTransports : \A z \in FreeTransports : y <= z IN
            /\ terminals' = [terminals EXCEPT ![t] = x]
            /\ transports' = [Cleared EXCEPT ![x] =
                                [applyGlobals(NewTransport(m), t) EXCEPT !.latest = globals]]
            /\ last' = [NoOp EXCEPT !.op = "registerTerminal", !.t = t, !.x = x, !.ret = OK]
            /\ UNCHANGED <<globals, batch, computed>>

\* the application installs its handlers on terminal t:
\* SDK.setConnectionCallback, setErrorCallback and setCloseCallback
SetCallbacks(t) ==
  IF terminals[t] = 0
    THEN Return("setCallbacks", t, TERMINAL_NOT_FOUND)
    ELSE /\ transports[terminals[t]].cbs # Callbacks
         /\ Step(terminals[t], "setCallbacks", 0, 0,
                 [Start(terminals[t]) EXCEPT
                    !.cbs = Callbacks,
                    !.latest = [c \in Categories |-> IF c \in Callbacks THEN Own ELSE @[c]]])

\* SDK.connect(t)
Connect(t, throws) ==
  IF terminals[t] = 0
    THEN Return("connect", t, TERMINAL_NOT_FOUND)
    ELSE LET x == terminals[t] IN
         /\ transports[x].connected \/ throws \/ FreeSlots(transports[x]) # {}
         /\ Step(x, "connect", 0, 0, connect(Start(x), "user", throws))

\* SDK.disconnect(t)
Disconnect(t) ==
  IF terminals[t] = 0
    THEN Return("disconnect", t, TERMINAL_NOT_FOUND)
    ELSE Step(terminals[t], "disconnect", 0, 0, disconnect(Start(terminals[t])))

\* SDK.sendBinaryData(t, data, dataType) / sendAudioData
SendBinaryData(t, len, ok) ==
  IF terminals[t] = 0
    THEN Return("sendBinaryData", t, TERMINAL_NOT_FOUND)
    ELSE Step(terminals[t], "sendBinaryData", 0, len,
              sendBinaryData(Start(terminals[t]), len, ok))

\* SDK.sendSignal(t, signal)
SendSignal(t, size, serializable, ok) ==
  IF terminals[t] = 0
    THEN Return("sendSignal", t, TERMINAL_NOT_FOUND)
    ELSE Step(terminals[t], "sendSignal", 0, size,
              sendSignal(Start(terminals[t]), size, serializable, ok))

\* the terminal id the registry holds transport x under
IdOf(x) == CHOOSE t \in DOMAIN terminals : terminals[t] = x

\* unregisterTerminal that takes an absent id for done
UnregisterTerminal_idempotent(t) ==
  IF terminals[t] = 0
    THEN Return("unregisterTerminal", t, OK)
    ELSE LET x == terminals[t]
             s0 == Start(x)
             s1 == IF s0.connected
                     THEN [disconnect(s0) EXCEPT !.log =
                             SelectSeq(@, LAMBDA e : e.ev # "sdk_disconnect")]
                     ELSE s0
         IN  /\ terminals' = [terminals EXCEPT ![t] = 0]
             /\ transports' = [Cleared EXCEPT ![x] = Canon(Emit(s1, "sdk_unregister", OK))]
             /\ last' = [NoOp EXCEPT !.op = "unregisterTerminal", !.t = t, !.x = x,
                                      !.ret = OK]
             /\ UNCHANGED <<globals, batch, computed>>

\* SDK.unregisterTerminal(t): disconnect() when connected, then the entry goes.
\* The transport object lives on for as long as a timer or a connection
\* refers to it.
UnregisterTerminal(t) ==
  IF terminals[t] = 0
    THEN Return("unregisterTerminal", t, TERMINAL_NOT_FOUND)
    ELSE LET x == terminals[t]
             s0 == Start(x)
             s1 == IF s0.connected
                     THEN [disconnect(s0) EXCEPT !.log =
                             SelectSeq(@, LAMBDA e : e.ev # "sdk_disconnect")]
                     ELSE s0
         IN  /\ terminals' = [terminals EXCEPT ![t] = 0]
             /\ transports' = [Cleared EXCEPT ![x] = Canon(Emit(s1, "sdk_unregister", OK))]
             /\ last' = [NoOp EXCEPT !.op = "unregisterTerminal", !.t = t, !.x = x,
                                      !.ret = OK]
             /\ UNCHANGED <<globals, batch, computed>>

\* a set-callback that leaves the wrapper of a global callback in place
SetCallback_besideGlobal(t, cat) ==
  IF terminals[t] = 0
    THEN Return("setCallback", t, TERMINAL_NOT_FOUND)
    ELSE LET s0 == Start(terminals[t]) IN
         /\ transports' = [Cleared EXCEPT ![terminals[t]] =
                             [s0 EXCEPT !.cbs = @ \cup {cat},
                                        !.latest = [c \in Categories |->
                                                      IF c = cat THEN Own ELSE @[c]]]]
         /\ last' = [NoOp EXCEPT !.op = "setCallback", !.t = t, !.x = terminals[t],
                                  !.ret = OK, !.cat = cat]
         /\ UNCHANGED <<terminals, globals, batch, computed>>

\* SDK.set*Callback(t, callback) for one category (audio included)
SetCallback(t, cat) ==
  IF terminals[t] = 0
    THEN Return("setCallback", t, TERMINAL_NOT_FOUND)
    ELSE LET s0 == Start(terminals[t]) IN
         /\ transports' = [Cleared EXCEPT ![terminals[t]] =
                             [s0 EXCEPT !.cbs = @ \cup {cat},
                                        !.wrapper = [c \in Categories |->
                                                       IF c = cat THEN NoWrapper ELSE @[c]],
                                        !.latest = [c \in Categories |->
                                                      IF c = cat THEN Own ELSE @[c]]]]
         /\ last' = [NoOp EXCEPT !.op = "setCallback", !.t = t, !.x = terminals[t],
                                  !.ret = OK, !.cat = cat]
         /\ UNCHANGED <<terminals, globals, batch, computed>>

\* SDK.setGlobal*Callback(callback): the field, then a wrapper around callback
\* on the transport of every registered terminal
SetGlobalCallback(cat, g) ==
  /\ globals' = [globals EXCEPT ![cat] = g]
  /\ transports' = [x \in DOMAIN transports |->
                      IF Registered(x)
                        THEN [Start(x) EXCEPT !.cbs = @ \cup {cat},
                                              !.wrapper[cat] = [id |-> IdOf(x), g |-> g],
                                              !.latest[cat] = g]
                        ELSE Start(x)]
  /\ last' = [NoOp EXCEPT !.op = "setGlobalCallback", !.cat = cat, !.arg = g]
  /\ UNCHANGED <<terminals, batch, computed>>

\* the code a connect() that connectAll called has yielded in the step (s is
\* the transport after it), -1 when its promise is pending
yielded(s) ==
  IF \E i \in 1..Len(s.log) : s.log[i].ev = "connectAll_result"
    THEN s.log[CHOOSE i \in 1..Len(s.log) : s.log[i].ev = "connectAll_result"].arg
    ELSE -1

\* SDK.connectAll(): SDK.connect of every registered terminal, each running up
\* to its await, then Promise.all.  throwing: the transports whose
\* new WebSocket(url) throws
ConnectAll(throwing) ==
  /\ ~Awaiting(batch)
  /\ \A x \in DOMAIN transports :
        Registered(x) =>
          transports[x].connected \/ x \in throwing \/ FreeSlots(transports[x]) # {}
  /\ LET after == [x \in DOMAIN transports |->
                     IF Registered(x)
                       THEN connect(Start(x), "batch", x \in throwing)
                       ELSE Start(x)]
         b == [x \in DOMAIN transports |->
                 IF Registered(x)
                   THEN [id |-> IdOf(x), code |-> yielded(after[x])]
                   ELSE NoResult]
         done == \A x \in DOMAIN b : b[x].code # -1 \/ b[x].id = ""
     IN  /\ \A x \in DOMAIN transports : InBounds(after[x])
         /\ transports' = [x \in DOMAIN transports |-> Canon(after[x])]
         /\ batch' = IF done THEN [x \in DOMAIN batch |-> NoResult] ELSE b
         /\ last' = [NoOp EXCEPT !.op = "connectAll", !.arg = IF done THEN 1 ELSE 0,
                                  !.results = IF done THEN Results(b) ELSE {}]
         /\ UNCHANGED <<terminals, globals, computed>>

\* the code SDK.disconnect returned in the step that made the transport s
disconnectCode(s) ==
  s.log[CHOOSE i \in 1..Len(s.log) : s.log[i].ev = "sdk_disconnect"].arg

\* SDK.disconnectAll(): SDK.disconnect of every registered terminal; none of
\* them waits for an event, so all have returned when the step ends
DisconnectAll ==
  /\ transports' = [x \in DOMAIN transports |->
                      IF Registered(x) THEN Canon(disconnect(Start(x))) ELSE Start(x)]
  /\ last' = [NoOp EXCEPT !.op = "disconnectAll",
                           !.results = {<<IdOf(x), disconnectCode(disconnect(Start(x)))>> :
                                          x \in {y \in DOMAIN transports : Registered(y)}}]
  /\ UNCHANGED <<terminals, globals, batch, computed>>

\* the codes SDK.sendSignal returned in the step, in the order of the calls
sendCodes(s) ==
  LET sel == SelectSeq(s.log, LAMBDA e : e.ev = "sdk_send")
  IN  [i \in 1..Len(sel) |-> sel[i].arg]

\* the sendSignal calls of a batch, one after another; signals[i] is the size
\* of signal i, whether it serializes and whether its write succeeds
RECURSIVE sendSignals(_, _, _)
sendSignals(s, signals, i) ==
  IF i > Len(signals)
    THEN s
    ELSE sendSignals(sendSignal(s, signals[i].size, signals[i].serializable,
                                signals[i].ok),
                     signals, i + 1)

\* SDK.sendSignalsBatch(t, signals): results[index] = code of SDK.sendSignal
SendSignalsBatch(t, signals) ==
  IF terminals[t] = 0
    THEN /\ last' = [NoOp EXCEPT !.op = "sendSignalsBatch", !.t = t,
                                  !.arg = Len(signals),
                                  !.codes = [i \in 1..Len(signals) |-> TERMINAL_NOT_FOUND]]
         /\ transports' = Cleared
         /\ UNCHANGED <<terminals, globals, batch, computed>>
    ELSE LET x == terminals[t]
             s1 == sendSignals(Start(x), signals, 1)
         IN  /\ InBounds(s1)
             /\ transports' = [Cleared EXCEPT ![x] = s1]
             /\ last' = [NoOp EXCEPT !.op = "sendSignalsBatch", !.t = t, !.x = x,
                                      !.arg = Len(signals), !.codes = sendCodes(s1)]
             /\ UNCHANGED <<terminals, globals, batch, computed>>

\* close() during the handshake queues the error and close events of that
\* connection on the next tick, ahead of every timer and every other event;
\* only the caller's own continuations can run before them
NoAbort(x) == \A k \in Sockets : transports[x].socks[k].state # "aborting"

\* the timeout timer of connect() fires
ConnectTimeout(x, k) ==
  /\ NoAbort(x)
  /\ transports[x].socks[k].timeout
  /\ Step(x, "timeout", k, 0, connectTimeout(Start(x), k))

\* the handshake of connection k completes: the open event
SocketOpen(x, k) ==
  /\ NoAbort(x)
  /\ transports[x].socks[k].state = "connecting"
  /\ Step(x, "open", k, 0, openHandler(Start(x), k))

\* the handshake of connection k fails or was aborted by close(): the error
\* event and the close event are emitted back to back, then the reactions run
SocketFail(x, k) ==
  /\ transports[x].socks[k].state = "aborting"
       \/ (NoAbort(x) /\ transports[x].socks[k].state = "connecting")
  /\ LET s0 == Start(x)
         s1 == closeHandler(errorHandler(s0, k), k)
     IN  Step(x, "fail", k, 0, release(catchReconnect(s0, s1, k), k))

\* the error event on the established connection k; its close event follows
SocketError(x, k) ==
  /\ NoAbort(x)
  /\ transports[x].socks[k].state = "open"
  /\ Step(x, "error", k, 0,
          [errorHandler(Start(x), k) EXCEPT !.socks[k].state = "closing"])

\* the close event of the established connection k
SocketClose(x, k) ==
  /\ NoAbort(x)
  /\ transports[x].socks[k].state \in {"open", "closing"}
  /\ Step(x, "close", k, 0, release(closeHandler(Start(x), k), k))

\* a message event of the established connection k
Message(x, k, kind) ==
  /\ NoAbort(x)
  /\ transports[x].socks[k].state = "open"
  /\ StepOf(x, "message", k, 0, kind, messageHandler(Start(x), kind))

\* resetStatistics() of transport x
ResetStatistics(x) ==
  /\ Registered(x)
  /\ Step(x, "resetStatistics", 0, 0, resetStatistics(Start(x)))

PendingHeartbeat(s) ==
  (IF s.heartbeatTimer = "pending" THEN {"handle"} ELSE {})
    \cup (IF s.hbOrphans > 0 THEN {"orphan"} ELSE {})

\* a heartbeat timer fires
HeartbeatTimer(x, which, ok) ==
  /\ NoAbort(x)
  /\ which \in PendingHeartbeat(transports[x])
  /\ Step(x, "heartbeat", 0, 0,
          sendHeartbeat(fireHeartbeatTimer(Start(x), which), ok))

PendingReconnect(s) ==
  (IF s.reconnectTimer = "pending" THEN {"handle"} ELSE {})
    \cup (IF s.rcOrphans > 0 THEN {"orphan"} ELSE {})

\* a reconnect timer fires
ReconnectTimer(x, which, throws) ==
  /\ NoAbort(x)
  /\ which \in PendingReconnect(transports[x])
  /\ LET s0 == fireReconnectTimer(Start(x), which) IN
     /\ ~s0.shouldReconnect \/ s0.connected \/ throws \/ FreeSlots(s0) # {}
     /\ Step(x, "reconnect", 0, 0, reconnectCallback(s0, throws))

\* the caller's and the environment's steps on the connection lifecycle
Lifecycle ==
  \/ \E t \in TerminalIds, m \in MaxReconnectAttemptsValues : RegisterTerminal(t, m)
  \/ \E t \in TerminalIds : SetCallbacks(t)
  \/ \E t \in TerminalIds, throws \in BOOLEAN : Connect(t, throws)
  \/ \E t \in TerminalIds : Disconnect(t)
  \/ \E x \in Transports, k \in Sockets : ConnectTimeout(x, k)
  \/ \E x \in Transports, k \in Sockets : SocketOpen(x, k)
  \/ \E x \in Transports, k \in Sockets : SocketFail(x, k)
  \/ \E x \in Transports, k \in Sockets : SocketError(x, k)
  \/ \E x \in Transports, k \in Sockets : SocketClose(x, k)
  \/ \E x \in Transports, which \in {"handle", "orphan"}, ok \in BOOLEAN :
       HeartbeatTimer(x, which, ok)
  \/ \E x \in Transports, which \in {"handle", "orphan"}, throws \in BOOLEAN :
       ReconnectTimer(x, which, throws)

Next == Lifecycle

Spec == Init /\ [][Next]_vars

\* ---- sending on an established connection ----------------------------------
Sending ==
  \/ \E t \in TerminalIds, m \in MaxReconnectAttemptsValues : RegisterTerminal(t, m)
  \/ \E t \in TerminalIds : SetCallbacks(t)
  \/ \E t \in TerminalIds : Connect(t, FALSE)
  \/ \E t \in TerminalIds : Disconnect(t)
  \/ \E x \in Transports, k \in Sockets : SocketOpen(x, k)
  \/ \E x \in Transports, k \in Sockets : SocketFail(x, k)
  \/ \E x \in Transports, k \in Sockets : SocketClose(x, k)
  \/ \E x \in Transports, ok \in BOOLEAN : HeartbeatTimer(x, "handle", ok)
  \/ \E t \in TerminalIds, len \in BinaryLens, ok \in BOOLEAN : SendBinaryData(t, len, ok)
  \/ \E t \in TerminalIds, size \in SignalSizes, serializable \in BOOLEAN, ok \in BOOLEAN :
       SendSignal(t, size, serializable, ok)

SpecSend == Init /\ [][Sending]_vars

\* ---- the counters of one terminal ---------------------------------------------
\* every step that changes a counter of the statistics: signals and binary
\* frames written and failing to be written, messages of every kind, drops
\* and the reconnects that follow them, and resetStatistics()
Counting ==
  \/ \E t \in TerminalIds : RegisterTerminal(t, -1)
  \/ \E t \in TerminalIds : Connect(t, FALSE)
  \/ \E t \in TerminalIds : Disconnect(t)
  \/ \E x \in Transports, k \in Sockets : SocketOpen(x, k)
  \/ \E x \in Transports, k \in Sockets : SocketFail(x, k)
  \/ \E x \in Transports, k \in Sockets : SocketClose(x, k)
  \/ \E x \in Transports : ReconnectTimer(x, "handle", FALSE)
  \/ \E t \in TerminalIds, ok \in BOOLEAN : SendSignal(t, MaxMessageSize, TRUE, ok)
  \/ \E t \in TerminalIds, ok \in BOOLEAN : SendBinaryData(t, 0, ok)
  \/ \E x \in Transports, k \in Sockets, kind \in MessageKinds : Message(x, k, kind)
  \/ \E x \in Transports : ResetStatistics(x)

SpecStats == Init /\ [][Counting]_vars

\* ---- the errors of one terminal -----------------------------------------------
\* every step that reports an error, with and without an error callback:
\* connects that time out, fail or throw, errors of an established
\* connection, writes that fail and messages that do not parse
Reporting ==
  \/ \E t \in TerminalIds : RegisterTerminal(t, -1)
  \/ \E t \in TerminalIds : SetCallbacks(t)
  \/ \E t \in TerminalIds, throws \in BOOLEAN : Connect(t, throws)
  \/ \E x \in Transports, k \in Sockets : ConnectTimeout(x, k)
  \/ \E x \in Transports, k \in Sockets : SocketOpen(x, k)
  \/ \E x \in Transports, k \in Sockets : SocketFail(x, k)
  \/ \E x \in Transports, k \in Sockets : SocketError(x, k)
  \/ \E x \in Transports, k \in Sockets : SocketClose(x, k)
  \/ \E x \in Transports, throws \in BOOLEAN : ReconnectTimer(x, "handle", throws)
  \/ \E t \in TerminalIds : SendSignal(t, MaxMessageSize, TRUE, FALSE)
  \/ \E t \in TerminalIds : SendBinaryData(t, 0, FALSE)
  \/ \E x \in Transports, k \in Sockets : Message(x, k, "invalid")

SpecErrors == Init /\ [][Reporting]_vars

\* ---- the heartbeat of one terminal ---------------------------------------------
\* ticks of the heartbeat between signals and binary frames that are written
\* or fail to be written and messages of every kind, on connections that
\* open, close and are disconnected
Beating ==
  \/ \E t \in TerminalIds : RegisterTerminal(t, -1)
  \/ \E t \in TerminalIds : Connect(t, FALSE)
  \/ \E t \in TerminalIds : Disconnect(t)
  \/ \E x \in Transports, k \in Sockets : SocketOpen(x, k)
  \/ \E x \in Transports, k \in Sockets : SocketClose(x, k)
  \/ \E x \in Transports, ok \in BOOLEAN : HeartbeatTimer(x, "handle", ok)
  \/ \E t \in TerminalIds, ok \in BOOLEAN : SendSignal(t, MaxMessageSize, TRUE, ok)
  \/ \E t \in TerminalIds, ok \in BOOLEAN : SendBinaryData(t, 0, ok)
  \/ \E x \in Transports, k \in Sockets, kind \in MessageKinds : Message(x, k, kind)

SpecHeartbeat == Init /\ [][Beating]_vars

\* ---- a terminal that is unregistered ------------------------------------------
\* a terminal is registered, connects, loses its connection, reconnects and is
\* unregistered at any point of that, with its callbacks installed or not
Retiring ==
  \/ \E t \in TerminalIds : RegisterTerminal(t, -1)
  \/ \E t \in TerminalIds : SetCallbacks(t)
  \/ \E t \in TerminalIds : Connect(t, FALSE)
  \/ \E t \in TerminalIds : UnregisterTerminal(t)
  \/ \E x \in Transports, k \in Sockets : SocketOpen(x, k)
  \/ \E x \in Transports, k \in Sockets : SocketFail(x, k)
  \/ \E x \in Transports, k \in Sockets : SocketClose(x, k)
  \/ \E x \in Transports, ok \in BOOLEAN : HeartbeatTimer(x, "handle", ok)
  \/ \E x \in Transports, which \in {"handle", "orphan"} : ReconnectTimer(x, which, FALSE)

SpecUnregister == Init /\ [][Retiring]_vars

\* ---- recovery of a lost connection --------------------------------------------
\* a registered terminal with unlimited reconnect attempts and its callbacks
\* installed
InitRecover ==
  /\ terminals = [t \in TerminalIds |-> 1]
  /\ transports = [x \in Transports |-> [NewTransport(-1) EXCEPT !.cbs = Callbacks]]
  /\ last = NoOp
  /\ globals = [c \in Categories |-> 0]
  /\ batch = [x \in Transports |-> NoResult]
  /\ computed = Nothing

\* a connect attempt that fails while failures are still to come
SocketFailEarly(x, k) == transports[x].errors < MaxFailures /\ SocketFail(x, k)

\* a connect attempt that times out while failures are still to come
ConnectTimeoutEarly(x, k) == transports[x].errors < MaxFailures /\ ConnectTimeout(x, k)

\* a reconnect timer fires
ReconnectTimerFires(x) == \E which \in {"handle", "orphan"} : ReconnectTimer(x, which, FALSE)

\* the close event of a connection the transport has let go of (this.ws
\* names another or none): its keepalive failed, or another took its place
StaleClose(x, k) == transports[x].ws # k /\ SocketClose(x, k)

\* the steps of a transport that loses connections and recovers them: the
\* caller connects and disconnects, connections open, close and fail keepalives,
\* and at most MaxFailures connect attempts fail or time out
Recovering ==
  \/ \E t \in TerminalIds : Connect(t, FALSE)
  \/ \E t \in TerminalIds : Disconnect(t)
  \/ \E x \in Transports, k \in Sockets : SocketOpen(x, k)
  \/ \E x \in Transports, k \in Sockets : SocketClose(x, k)
  \/ \E x \in Transports, k \in Sockets : SocketFailEarly(x, k)
  \/ \E x \in Transports, k \in Sockets : ConnectTimeoutEarly(x, k)
  \/ \E x \in Transports, which \in {"handle", "orphan"}, ok \in BOOLEAN :
       HeartbeatTimer(x, which, ok)
  \/ \E x \in Transports : ReconnectTimerFires(x)

\* timers fire, the server answers every connect attempt that is under way,
\* and a connection the transport has let go of does not stay open for ever
SpecRecover ==
  /\ InitRecover
  /\ [][Recovering]_vars
  /\ \A x \in Transports : WF_vars(ReconnectTimerFires(x))
  /\ \A x \in Transports, k \in Sockets : WF_vars(SocketOpen(x, k))
  /\ \A x \in Transports, k \in Sockets : WF_vars(StaleClose(x, k))

\* ---- the binary frame ---------------------------------------------------------
\* the bytes of the payloads that are enumerated
PayloadBytes == {0, 165, 255}

\* a payload of the greatest length sendBinaryData accepts
LongPayload == [i \in 1..MaxBinaryLen |-> (7 * i) % 256]

\* every payload of up to MaxPayload of the bytes above
Payloads == UNION {[1..n -> PayloadBytes] : n \in 0..MaxPayload}

\* a payload of 160 bytes and the longest
LongPayloads == {SubSeq(LongPayload, 1, 160), LongPayload}

\* the mask keys Math.random() may draw, of which four
MaskKeys == {<<0, 0, 0, 0>>, <<255, 255, 255, 255>>, <<1, 2, 4, 8>>, <<18, 52, 86, 165>>}

\* data-type tags, as character codes: none, "opus", "OPUS", "pcm16kh" (7),
\* "pcm16khz" (8) and "Pcm16kHz1" (9)
DataTypes ==
  { <<>>,
    <<111, 112, 117, 115>>,
    <<79, 80, 85, 83>>,
    <<112, 99, 109, 49, 54, 107, 104>>,
    <<112, 99, 109, 49, 54, 107, 104, 122>>,
    <<80, 99, 109, 49, 54, 107, 72, 122, 49>> }

\* the calls of sendBinaryData: the enumerated payloads with every tag and
\* key, the long payloads as "opus" with two of the keys
FrameInputs ==
  {[fn |-> "sendBinaryData", data |-> d, dataType |-> ty, maskKey |-> key,
    frame |-> <<>>] : d \in Payloads, ty \in DataTypes, key \in MaskKeys}
  \cup
  {[fn |-> "sendBinaryData", data |-> d, dataType |-> <<111, 112, 117, 115>>,
    maskKey |-> key, frame |-> <<>>] :
      d \in LongPayloads, key \in {<<1, 2, 4, 8>>, <<18, 52, 86, 165>>}}

\* a call of sendBinaryData on a connected transport is about to build its frame
InitFrame ==
  /\ terminals = [t \in TerminalIds |-> 0]
  /\ transports = [x \in Transports |-> NoTransport]
  /\ last = NoOp
  /\ globals = [c \in Categories |-> 0]
  /\ batch = [x \in Transports |-> NoResult]
  /\ computed \in FrameInputs

\* sendBinaryData builds the frame it writes
BuildFrame ==
  /\ computed.fn = "sendBinaryData"
  /\ computed.frame = <<>>
  /\ computed' = [computed EXCEPT
                    !.frame = protocolData(computed.data, computed.dataType,
                                           computed.maskKey)]
  /\ UNCHANGED <<terminals, transports, last, globals, batch>>

SpecFrame == InitFrame /\ [][BuildFrame]_vars

\* ---- the backoff delay --------------------------------------------------------
\* the numbers calculateBackoffDelay computes with: an integer written out, a
\* power of two 2^v too large to write out, a finite number above 2^20,
\* Infinity, and NaN
Num(v) == [kind |-> "num", v |-> v]

Pow2(e) == [kind |-> "pow2", v |-> e]

Large == [kind |-> "large", v |-> 0]

Infinity == [kind |-> "inf", v |-> 0]

NaN == [kind |-> "nan", v |-> 0]

\* Math.pow(factor, n) for a factor of 1, 2 or 4: the power of two 2^e, which
\* is a double while e < 1024 and Infinity from there on
pow(factor, n) ==
  LET e == (IF factor = 1 THEN 0 ELSE IF factor = 2 THEN 1 ELSE 2) * n
  IN  IF e >= 1024 THEN Infinity ELSE Pow2(e)

\* base * p for an integer base below 2^10 and p as pow returns it:
\* 0 * Infinity is NaN, 0 * 2^e is 0, and a product of 2^1024 or more is
\* Infinity
times(base, p) ==
  IF p.kind = "inf" THEN (IF base = 0 THEN NaN ELSE Infinity)
  ELSE IF base = 0 THEN Num(0)
  ELSE IF p.v <= 20 THEN Num(base * 2^(p.v))
  ELSE IF 1024 - p.v <= 10 /\ base >= 2^(1024 - p.v) THEN Infinity
  ELSE Large

\* Math.min(x, maxDelay) for an integer maxDelay below 2^20: NaN if x is NaN
mathMin(x, maxDelay) ==
  IF x.kind = "nan" THEN NaN
  ELSE IF x.kind = "num" THEN Num(IF x.v <= maxDelay THEN x.v ELSE maxDelay)
  ELSE Num(maxDelay)

\* the delay before jitter: base * factor^attempts, capped at maxDelay
backoffDelay(base, factor, maxDelay, attempts) ==
  mathMin(times(base, pow(factor, attempts)), maxDelay)

\* delay * jitter * (Math.random() * 2 - 1), the jitter factor given in tenths
\* and the random draw in quarters; the delays are multiples of 20, so that
\* the amount is an integer
jitterAmount(delay, jitter, random) ==
  IF delay.kind = "nan" THEN NaN
  ELSE Num((delay.v * jitter * (random * 2 - 4)) \div 40)

\* delay += jitterAmount
plus(delay, amount) ==
  IF delay.kind = "nan" \/ amount.kind = "nan" THEN NaN
  ELSE Num(delay.v + amount.v)

\* Math.max(0, delay): NaN if delay is NaN
mathMax0(delay) ==
  IF delay.kind = "nan" THEN NaN
  ELSE Num(IF delay.v >= 0 THEN delay.v ELSE 0)

\* calculateBackoffDelay with this.reconnectAttempts = attempts and
\* Math.random() = random / 4
calculateBackoffDelay(base, factor, maxDelay, jitter, attempts, random) ==
  LET delay == backoffDelay(base, factor, maxDelay, attempts)
  IN  mathMax0(plus(delay, jitterAmount(delay, jitter, random)))

\* baseReconnectIntervalMs and maxReconnectIntervalMs: 0, a small value and the
\* default
BaseIntervals == {0, 20, 1000}

MaxIntervals == {0, 60, 60000}

\* backoffFactor: none, the default 2.0, and 4
BackoffFactors == {1, 2, 4}

\* jitterFactor in tenths: none, the default 0.1, 1.0 and 1.5
JitterFactors == {0, 1, 10, 15}

\* Math.random() in quarters: 0, 0.25, 0.5 and 0.75
RandomDraws == 0..3

\* this.reconnectAttempts: the first attempts, and those around which
\* 4^attempts and 2^attempts leave the doubles
AttemptCounts == {0, 1, 2, 3, 6, 511, 512, 1023, 1024}

\* the calls of calculateBackoffDelay
BackoffInputs ==
  {[fn |-> "calculateBackoffDelay", base |-> b, factor |-> f, maxDelay |-> mx,
    jitter |-> j, attempts |-> n, random |-> r, done |-> FALSE,
    delay |-> Num(0), nextDelay |-> Num(0), out |-> Num(0)] :
      b \in BaseIntervals, f \in BackoffFactors, mx \in MaxIntervals,
      j \in JitterFactors, n \in AttemptCounts, r \in RandomDraws}

\* startReconnect is about to compute the delay of an attempt
InitBackoff ==
  /\ terminals = [t \in TerminalIds |-> 0]
  /\ transports = [x \in Transports |-> NoTransport]
  /\ last = NoOp
  /\ globals = [c \in Categories |-> 0]
  /\ batch = [x \in Transports |-> NoResult]
  /\ computed \in BackoffInputs

\* calculateBackoffDelay computes the delay of this attempt; nextDelay is the
\* delay before jitter of the attempt after it
CalculateBackoffDelay ==
  /\ computed.fn = "calculateBackoffDelay"
  /\ ~computed.done
  /\ computed' =
       [computed EXCEPT
          !.done = TRUE,
          !.delay = backoffDelay(computed.base, computed.factor,
                                 computed.maxDelay, computed.attempts),
          !.nextDelay = backoffDelay(computed.base, computed.factor,
                                     computed.maxDelay, computed.attempts + 1),
          !.out = calculateBackoffDelay(computed.base, computed.factor,
                                        computed.maxDelay, computed.jitter,
                                        computed.attempts, computed.random)]
  /\ UNCHANGED <<terminals, transports, last, globals, batch>>

SpecBackoff == InitBackoff /\ [][CalculateBackoffDelay]_vars

\* ---- the registry with several terminals -------------------------------------
TerminalNames == <<"t1", "t2", "t3">>

RegistryIds == {TerminalNames[i] : i \in 1..MaxTerminals}

RegistryTransports == 1..MaxTerminals

\* a signal handed to sendSignalsBatch: at the size limit and written, over the
\* limit, or at the limit with a write that fails
SignalInputs ==
  { [size |-> MaxMessageSize, serializable |-> TRUE, ok |-> TRUE],
    [size |-> MaxMessageSize + 1, serializable |-> TRUE, ok |-> TRUE],
    [size |-> MaxMessageSize, serializable |-> TRUE, ok |-> FALSE] }

SignalBatches == UNION {[1..n -> SignalInputs] : n \in 0..MaxBatch}

InitRegistry ==
  /\ terminals = [t \in RegistryIds |-> 0]
  /\ transports = [x \in RegistryTransports |-> NoTransport]
  /\ last = NoOp
  /\ globals = [c \in Categories |-> 0]
  /\ batch = [x \in RegistryTransports |-> NoResult]
  /\ computed = Nothing

\* terminal id t is not registered, or its transport is connected or has no
\* connection: a connect() of it is the only attempt of the transport
Settled(t) ==
  IF terminals[t] = 0
    THEN TRUE
    ELSE \/ transports[terminals[t]].connected
         \/ \A k \in Sockets : transports[terminals[t]].socks[k] = FreeSock

\* a set-callback call on an id that is not registered
SetCallbackAbsent(t, cat) == terminals[t] = 0 /\ SetCallback(t, cat)

\* SDK.connect(t) as the only attempt of the terminal
ConnectOnce(t, throws) == Settled(t) /\ Connect(t, throws)

\* SDK.connectAll() as the only attempt of every terminal
ConnectAllOnce(throwing) ==
  (\A t \in DOMAIN terminals : Settled(t)) /\ ConnectAll(throwing)

\* the close event of a connection disconnect() closed
SocketClosed(x, k) == transports[x].socks[k].state = "closing" /\ SocketClose(x, k)

\* connectAll and disconnectAll over several terminals whose application makes
\* one connect attempt at a time and that never lose a connection they have:
\* connects that open, fail or time out
Registry ==
  \/ \E t \in RegistryIds : RegisterTerminal(t, -1)
  \/ \E t \in RegistryIds : UnregisterTerminal(t)
  \/ \E throwing \in SUBSET RegistryTransports : ConnectAllOnce(throwing)
  \/ \E t \in RegistryIds : Disconnect(t)
  \/ DisconnectAll
  \/ \E x \in RegistryTransports, k \in Sockets : ConnectTimeout(x, k)
  \/ \E x \in RegistryTransports, k \in Sockets : SocketOpen(x, k)
  \/ \E x \in RegistryTransports, k \in Sockets : SocketFail(x, k)
  \/ \E x \in RegistryTransports, k \in Sockets : SocketClosed(x, k)

SpecRegistry == InitRegistry /\ [][Registry]_vars

\* ---- the batch operations -----------------------------------------------------
\* connectAll, disconnectAll and sendSignalsBatch over terminals that stay
\* registered: connects that open or fail, and batches of signals
\* sent to terminals that are connected and to terminals that are not
Batches ==
  \/ \E t \in RegistryIds : RegisterTerminal(t, -1)
  \/ \E throwing \in SUBSET RegistryTransports : ConnectAllOnce(throwing)
  \/ DisconnectAll
  \/ \E t \in RegistryIds, signals \in SignalBatches : SendSignalsBatch(t, signals)
  \/ \E x \in RegistryTransports, k \in Sockets : SocketOpen(x, k)
  \/ \E x \in RegistryTransports, k \in Sockets : SocketFail(x, k)
  \/ \E x \in RegistryTransports, k \in Sockets : SocketClosed(x, k)

SpecBatch == InitRegistry /\ [][Batches]_vars

\* ---- callbacks of several terminals ------------------------------------------
\* the global callbacks the application sets for a category
GlobalCallbacks == 1..MaxGlobals

\* the categories the application installs callbacks for: one whose events
\* the connection lifecycle produces and one whose events are messages
InstalledCategories == {"connection", "directive"}

\* global and terminal-specific callbacks on terminals that connect and
\* receive directives
Installing ==
  \/ \E t \in RegistryIds : RegisterTerminal(t, -1)
  \/ \E t \in RegistryIds, cat \in InstalledCategories : SetCallback(t, cat)
  \/ \E cat \in InstalledCategories, g \in GlobalCallbacks : SetGlobalCallback(cat, g)
  \/ \E t \in RegistryIds : ConnectOnce(t, FALSE)
  \/ \E x \in RegistryTransports, k \in Sockets : SocketOpen(x, k)
  \/ \E x \in RegistryTransports, k \in Sockets : Message(x, k, "directive")

SpecCallbacks == InitRegistry /\ [][Installing]_vars

\* ---- every registry operation, on registered and unregistered ids -------------
\* several ids, of which the registry holds as many as there are transports
InitCalls ==
  /\ terminals = [t \in RegistryIds |-> 0]
  /\ transports = [x \in Transports |-> NoTransport]
  /\ last = NoOp
  /\ globals = [c \in Categories |-> 0]
  /\ batch = [x \in Transports |-> NoResult]
  /\ computed = Nothing

Calls ==
  \/ \E t \in RegistryIds : RegisterTerminal(t, -1)
  \/ \E t \in RegistryIds : UnregisterTerminal(t)
  \/ \E t \in RegistryIds, cat \in Categories \cup {"audio"} : SetCallbackAbsent(t, cat)
  \/ \E t \in RegistryIds, throws \in BOOLEAN : ConnectOnce(t, throws)
  \/ \E throwing \in SUBSET Transports : ConnectAllOnce(throwing)
  \/ \E t \in RegistryIds : Disconnect(t)
  \/ DisconnectAll
  \/ \E t \in RegistryIds, size \in SignalSizes, serializable \in BOOLEAN, ok \in BOOLEAN :
       SendSignal(t, size, serializable, ok)
  \/ \E t \in RegistryIds, signals \in SignalBatches : SendSignalsBatch(t, signals)
  \/ \E t \in RegistryIds, len \in BinaryLens, ok \in BOOLEAN : SendBinaryData(t, len, ok)
  \/ \E x \in Transports, k \in Sockets : ConnectTimeout(x, k)
  \/ \E x \in Transports, k \in Sockets : SocketOpen(x, k)
  \/ \E x \in Transports, k \in Sockets : SocketFail(x, k)
  \/ \E x \in Transports, k \in Sockets : SocketClosed(x, k)

SpecCalls == InitCalls /\ [][Calls]_vars

\* ---- what the claims speak of ------------------------------------------------
\* pending reconnect timers of transport s
PendingReconnectTimers(s) == (IF s.reconnectTimer = "pending" THEN 1 ELSE 0) + s.rcOrphans

\* pending heartbeat timers of transport s
PendingHeartbeatTimers(s) == (IF s.heartbeatTimer = "pending" THEN 1 ELSE 0) + s.hbOrphans

\* pending connect-timeout timers of transport s
PendingTimeouts(s) == Cardinality({k \in Sockets : s.socks[k].timeout})

\* connections of transport s that exist
Connections(s) == Cardinality({k \in Sockets : s.socks[k].state # "free"})

\* connect attempts of transport s in flight: the handshake is in progress
\* and the promise of connect() is pending
InFlight(s) ==
  Cardinality({k \in Sockets : s.socks[k].state \in {"connecting", "aborting"}
                                  /\ s.socks[k].waiter # "none"})

\* attempts of maxReconnectAttempts remain
AttemptsRemain(s) ==
  s.maxReconnectAttempts <= 0 \/ s.reconnectAttempts < s.maxReconnectAttempts

\* the last step was op, taken by transport x
Did(op, x) == last.op = op /\ last.x = x


\* ---- C1 ---------------------------------------------------------------------
\* C1: when a close event of an underlying connection arrives at a Connected
\* transport, the transport is not connected after the handler, no heartbeat
\* timer is pending, the connection callback (when installed) was invoked with
\* connected=false and never with true, and, if the should-reconnect flag is
\* set and attempts remain (or are unlimited), exactly one more reconnect timer
\* is pending than before.
C1_UnsolicitedClose ==
  [][\A x \in Transports :
       (transports[x].connected /\ last'.op = "close" /\ last'.x = x) =>
         /\ ~transports'[x].connected
         /\ PendingHeartbeatTimers(transports'[x]) = 0
         /\ "connection" \in transports[x].cbs =>
              /\ Logged(transports'[x], "onConnected", 0)
              /\ ~Logged(transports'[x], "onConnected", 1)
         /\ transports[x].shouldReconnect /\ AttemptsRemain(transports[x]) =>
              PendingReconnectTimers(transports'[x])
                = PendingReconnectTimers(transports[x]) + 1
    ]_vars

\* a close event found the transport Connected with the flag set: it is
\* disconnected, the callback heard of it and a reconnect timer is pending
C1_Witness ==
  \E x \in Transports :
    /\ Did("close", x)
    /\ ~transports[x].connected
    /\ transports[x].shouldReconnect
    /\ Logged(transports[x], "onConnected", 0)
    /\ transports[x].heartbeatTimer = "null"
    /\ PendingReconnectTimers(transports[x]) = 1

\* ---- C2 ---------------------------------------------------------------------
\* C2: with a positive maxReconnectAttempts, once reconnectAttempts has reached
\* it, no step other than the caller's connect() or an open event schedules a
\* reconnect timer, starts a connect attempt or raises the attempt count; with
\* maxReconnectAttempts <= 0, a step in which a reconnect attempt fails leaves
\* a reconnect timer pending, whatever the attempt count.
C2_AttemptsExhausted ==
  [][\A x \in Transports :
       /\ ( /\ transports[x].maxReconnectAttempts > 0
            /\ transports[x].reconnectAttempts >= transports[x].maxReconnectAttempts
            /\ last'.x = x
            /\ last'.op \notin {"connect", "open"} ) =>
            /\ PendingReconnectTimers(transports'[x])
                 <= PendingReconnectTimers(transports[x])
            /\ Connections(transports'[x]) <= Connections(transports[x])
            /\ transports'[x].reconnectAttempts <= transports[x].reconnectAttempts
       /\ ( /\ transports[x].maxReconnectAttempts <= 0
            /\ last'.x = x
            /\ \E c \in {CONNECTION_TIMEOUT, CONNECTION_FAILED} :
                 Logged(transports'[x], "settle_timer", c) ) =>
            PendingReconnectTimers(transports'[x]) >= 1
    ]_vars

\* ---- C3 ---------------------------------------------------------------------
\* C3: after disconnect() the transport is not connected, the should-reconnect
\* flag is clear and no heartbeat timer and no reconnect timer is pending; a
\* second disconnect() right after leaves the transport as it was; and while
\* the flag is clear, no step but the caller's connect() creates a connection
\* or sets the flag.
C3_Disconnect ==
  /\ [](\A x \in Transports :
          Did("disconnect", x) =>
            /\ ~transports[x].connected
            /\ ~transports[x].shouldReconnect
            /\ PendingHeartbeatTimers(transports[x]) = 0
            /\ PendingReconnectTimers(transports[x]) = 0)
  /\ [][\A x \in Transports :
          (Did("disconnect", x) /\ last'.op = "disconnect" /\ last'.x = x) =>
            transports'[x] = transports[x]
       ]_vars
  /\ [][\A x \in Transports :
          ( /\ Registered(x)
            /\ ~transports[x].shouldReconnect
            /\ last'.x = x
            /\ last'.op # "connect" ) =>
            /\ ~transports'[x].shouldReconnect
            /\ Connections(transports'[x]) <= Connections(transports[x])
       ]_vars

\* ---- C4 ---------------------------------------------------------------------
\* C4: once disconnect() has cleared the should-reconnect flag while the
\* connect() of a reconnect attempt is awaited, the open event of that attempt
\* leaves the transport not connected and without a heartbeat timer, and the
\* failure of that attempt (its error or its timeout) schedules no reconnect
\* timer.
C4_DiscardedAttempt ==
  [][\A x \in Transports :
       ( /\ ~transports[x].shouldReconnect
         /\ last'.x = x
         /\ last'.sock.waiter = "timer" ) =>
         /\ last'.op = "open" =>
              /\ ~transports'[x].connected
              /\ PendingHeartbeatTimers(transports'[x]) = 0
         /\ last'.op \in {"fail", "timeout"} =>
              PendingReconnectTimers(transports'[x])
                <= PendingReconnectTimers(transports[x])
    ]_vars

\* ---- C5 ---------------------------------------------------------------------
\* C5: a transport has at most one connect attempt in flight, at most one
\* underlying connection in its handshake and at most one timeout timer
\* pending.
C5_OneAttemptInFlight ==
  \A x \in Transports :
    /\ InFlight(transports[x]) <= 1
    /\ PendingTimeouts(transports[x]) <= 1
    /\ Cardinality({k \in Sockets :
                      transports[x].socks[k].state = "connecting"}) <= 1

\* ---- C6 ---------------------------------------------------------------------
\* C6: when the timeout timer of a connect() attempt fires, the attempt's open
\* and error events have not fired and its promise is pending; the handler
\* increments errors by exactly one, invokes the error callback (when
\* installed) once, with ConnectionTimeout, and the connection callback (when
\* installed) with connected=false, and connect() fails with
\* ConnectionTimeout.  No timeout timer is pending for an attempt whose
\* connection has opened or whose promise is settled.
C6_Timeout ==
  /\ [][\A x \in Transports :
          (last'.op = "timeout" /\ last'.x = x) =>
            /\ last'.sock.state \in {"connecting", "aborting"}
            /\ last'.sock.waiter # "none"
            /\ transports'[x].errors = transports[x].errors + 1
            /\ "error" \in transports[x].cbs =>
                 /\ Logged(transports'[x], "onError", CONNECTION_TIMEOUT)
                 /\ Count(transports'[x], "onError") = 1
            /\ "connection" \in transports[x].cbs =>
                 Logged(transports'[x], "onConnected", 0)
            /\ last'.sock.waiter = "user" =>
                 /\ Logged(transports'[x], "settle_user", CONNECTION_TIMEOUT)
                 /\ Logged(transports'[x], "sdk_connect", CONNECTION_TIMEOUT)
            /\ last'.sock.waiter = "timer" =>
                 Logged(transports'[x], "settle_timer", CONNECTION_TIMEOUT)
       ]_vars
  /\ [](\A x \in Transports, k \in Sockets :
          transports[x].socks[k].timeout =>
            /\ transports[x].socks[k].state \in {"connecting", "aborting"}
            /\ transports[x].socks[k].waiter # "none")

\* the timeout of a caller's connect() fired with the callbacks installed
C6_Witness ==
  \E x \in Transports :
    /\ Did("timeout", x)
    /\ transports[x].errors = 1
    /\ Logged(transports[x], "onError", CONNECTION_TIMEOUT)
    /\ Logged(transports[x], "onConnected", 0)
    /\ Logged(transports[x], "sdk_connect", CONNECTION_TIMEOUT)

\* ---- C7 ---------------------------------------------------------------------
\* C7: a step in which a caller's connect() fails (its timeout fires, its
\* handshake fails, or the constructor throws) while the transport is not
\* Connected schedules no reconnect timer: as many are pending after it as
\* before.
C7_NoRetryOfCallerConnect ==
  [][\A x \in Transports :
       ( /\ last'.x = x
         /\ ~transports[x].connected
         /\ \E c \in {CONNECTION_TIMEOUT, CONNECTION_FAILED} :
              Logged(transports'[x], "settle_user", c) ) =>
         PendingReconnectTimers(transports'[x]) = PendingReconnectTimers(transports[x])
    ]_vars

\* a caller's connect() timed out on a transport that never connected, and no
\* reconnect timer is pending
C7_Witness ==
  \E x \in Transports :
    /\ Did("timeout", x)
    /\ Logged(transports[x], "settle_user", CONNECTION_TIMEOUT)
    /\ transports[x].shouldReconnect
    /\ PendingReconnectTimers(transports[x]) = 0

\* ---- C8 ---------------------------------------------------------------------
\* C8: SDK.connect on a Connected transport returns AlreadyConnected and
\* leaves every field of the transport as it was: connection state, handle,
\* connections, timers and counters.
C8_AlreadyConnected ==
  [][\A x \in Transports :
       (transports[x].connected /\ last'.op = "connect" /\ last'.x = x) =>
         /\ transports'[x] =
              [transports[x] EXCEPT !.log = <<Ev("settle_user", ALREADY_CONNECTED),
                                              Ev("sdk_connect", ALREADY_CONNECTED)>>]
    ]_vars

\* connect() was called on a Connected transport
C8_Witness ==
  \E x \in Transports :
    /\ Did("connect", x)
    /\ transports[x].connected
    /\ Logged(transports[x], "sdk_connect", ALREADY_CONNECTED)

\* ---- C9 ---------------------------------------------------------------------
\* C9: the open event of a connect() attempt leaves no timeout timer of that
\* attempt, the transport Connected, reconnectAttempts 0 and exactly one
\* heartbeat timer pending; the connection callback (when installed) was
\* invoked with connected=true, and the connect() that awaits the attempt
\* succeeds.
C9_Open ==
  [][\A x \in Transports :
       (last'.op = "open" /\ last'.x = x) =>
         /\ PendingTimeouts(transports'[x])
              = PendingTimeouts(transports[x]) - (IF last'.sock.timeout THEN 1 ELSE 0)
         /\ transports'[x].connected
         /\ transports'[x].reconnectAttempts = 0
         /\ PendingHeartbeatTimers(transports'[x]) = 1
         /\ "connection" \in transports[x].cbs =>
              Logged(transports'[x], "onConnected", 1)
         /\ last'.sock.waiter = "user" =>
              /\ Logged(transports'[x], "settle_user", OK)
              /\ Logged(transports'[x], "sdk_connect", OK)
         /\ last'.sock.waiter = "timer" => Logged(transports'[x], "settle_timer", OK)
    ]_vars

\* a reconnect attempt opened: the attempt count is back at 0
C9_Witness ==
  \E x \in Transports :
    /\ Did("open", x)
    /\ last.sock.timeout
    /\ Logged(transports[x], "settle_timer", OK)
    /\ Logged(transports[x], "onConnected", 1)
    /\ transports[x].connected
    /\ transports[x].reconnectAttempts = 0
    /\ transports[x].heartbeatTimer = "pending"

\* ---- C10 --------------------------------------------------------------------
\* C10: sendBinaryData with a payload longer than 65535 bytes on a Connected
\* terminal fails with SignalTooLarge, from the transport and as the code the
\* SDK returns, and writes nothing to the connection.
C10_BinaryTooLarge ==
  \A x \in Transports :
    ( /\ Did("sendBinaryData", x)
      /\ last.arg > MaxBinaryLen
      /\ transports[x].connected ) =>
      /\ Logged(transports[x], "throw", SIGNAL_TOO_LARGE)
      /\ Logged(transports[x], "sdk_send", SIGNAL_TOO_LARGE)
      /\ Count(transports[x], "write") = 0

\* ---- C11 --------------------------------------------------------------------
\* C11: sendSignal on a Connected terminal with a signal whose serialized size
\* exceeds maxMessageSize fails with SignalTooLarge, from the transport and as
\* the code the SDK returns, writes nothing to the connection and leaves
\* signalsSent (and every other field of the transport) unchanged; a signal of
\* exactly maxMessageSize bytes is not rejected with SignalTooLarge.
C11_SignalTooLarge ==
  [][\A x \in Transports :
       ( /\ transports[x].connected
         /\ last'.op = "sendSignal" /\ last'.x = x
         /\ ~Logged(transports'[x], "throw", 0) ) =>
         /\ last'.arg > MaxMessageSize =>
              /\ transports'[x] =
                   [transports[x] EXCEPT !.log = <<Ev("throw", SIGNAL_TOO_LARGE),
                                                   Ev("sdk_send", SIGNAL_TOO_LARGE)>>]
              /\ Count(transports'[x], "write") = 0
              /\ transports'[x].signalsSent = transports[x].signalsSent
         /\ last'.arg <= MaxMessageSize =>
              /\ ~Logged(transports'[x], "throw", SIGNAL_TOO_LARGE)
              /\ ~Logged(transports'[x], "sdk_send", SIGNAL_TOO_LARGE)
    ]_vars

\* a signal one byte over maxMessageSize was refused on a Connected terminal
C11_Witness ==
  \E x \in Transports :
    /\ Did("sendSignal", x)
    /\ last.arg = MaxMessageSize + 1
    /\ transports[x].connected
    /\ Logged(transports[x], "sdk_send", SIGNAL_TOO_LARGE)
    /\ transports[x].signalsSent = 0

\* ---- C12 --------------------------------------------------------------------
\* C12: registerTerminal with an id that is already registered returns
\* AlreadyInitialized; the registered ids and the transport each of them maps
\* to are unchanged, and every transport has the connection state, handle,
\* connections, timers, callbacks and statistics it had.
C12_DuplicateRegistration ==
  [][\A t \in DOMAIN terminals :
       (terminals[t] # 0 /\ last'.op = "registerTerminal" /\ last'.t = t) =>
         /\ last'.ret = ALREADY_INITIALIZED
         /\ terminals' = terminals
         /\ transports' = Cleared
         /\ globals' = globals
         /\ batch' = batch
    ]_vars

\* a second registration of the id of a Connected terminal was refused
C12_Witness ==
  /\ last.op = "registerTerminal"
  /\ last.ret = ALREADY_INITIALIZED
  /\ terminals[last.t] # 0
  /\ transports[terminals[last.t]].connected
  /\ transports[terminals[last.t]].heartbeatTimer = "pending"

\* ---- C13 --------------------------------------------------------------------
\* C13: connect, disconnect, sendSignal, sendBinaryData, unregisterTerminal and
\* every set-callback called with an id that is not registered return
\* TerminalNotFound, and sendSignalsBatch on such an id reports
\* TerminalNotFound for every signal index; the call changes no transport,
\* not the registered ids and no global callback.
C13_TerminalNotFound ==
  [][\A t \in DOMAIN terminals :
       ( /\ terminals[t] = 0
         /\ last'.t = t
         /\ last'.op \in {"connect", "disconnect", "sendSignal", "sendBinaryData",
                          "unregisterTerminal", "setCallback", "setCallbacks",
                          "sendSignalsBatch"} ) =>
         /\ last'.op # "sendSignalsBatch" => last'.ret = TERMINAL_NOT_FOUND
         /\ last'.op = "sendSignalsBatch" =>
              /\ DOMAIN last'.codes = 1..last'.arg
              /\ \A i \in 1..last'.arg : last'.codes[i] = TERMINAL_NOT_FOUND
         /\ terminals' = terminals
         /\ transports' = Cleared
         /\ globals' = globals
         /\ batch' = batch
    ]_vars

\* a batch of two signals was sent to an id that is not registered while
\* another terminal is Connected
C13_Witness ==
  /\ last.op = "sendSignalsBatch"
  /\ last.arg = 2
  /\ terminals[last.t] = 0
  /\ last.codes = <<TERMINAL_NOT_FOUND, TERMINAL_NOT_FOUND>>
  /\ \E u \in DOMAIN terminals : terminals[u] # 0 /\ transports[terminals[u]].connected

\* ---- C14 --------------------------------------------------------------------
\* the entries of global callbacks of category cat in the log of s
Globals(s, cat) == {i \in 1..Len(s.log) : s.log[i].ev = "global" /\ s.log[i].arg.cat = cat}

\* C14: while the callback installed last for a category of a registered
\* terminal is a global callback (set while the terminal was registered, or
\* before it was), an open event of the terminal and a directive it receives
\* are handed to that global callback, once, with the id of the terminal; and
\* no event of any terminal reaches a global callback with another id.
C14_GlobalCallback ==
  [][\A x \in DOMAIN transports :
       (Registered(x) /\ last'.x = x) =>
         /\ \A cat \in Categories : \A i \in Globals(transports'[x], cat) :
              transports'[x].log[i].arg.id = IdOf(x)
         /\ (last'.op = "open" /\ transports[x].latest["connection"] \in GlobalCallbacks) =>
              /\ Logged(transports'[x],
                        "global", [cat |-> "connection", id |-> IdOf(x),
                                   g |-> transports[x].latest["connection"]])
              /\ Cardinality(Globals(transports'[x], "connection")) = 1
         /\ ( /\ last'.op = "message"
              /\ transports'[x].directivesReceived > transports[x].directivesReceived
              /\ transports[x].latest["directive"] \in GlobalCallbacks ) =>
              /\ Logged(transports'[x],
                        "global", [cat |-> "directive", id |-> IdOf(x),
                                   g |-> transports[x].latest["directive"]])
              /\ Cardinality(Globals(transports'[x], "directive")) = 1
    ]_vars

\* a terminal registered after the global directive callback was set received
\* a directive, which reached the global callback with the terminal's id, while
\* another terminal is registered
C14_Witness ==
  \E x \in DOMAIN transports :
    /\ Did("message", x)
    /\ Registered(x)
    /\ transports[x].wrapper["directive"] = [id |-> IdOf(x), g |-> 0]
    /\ Logged(transports[x], "global",
              [cat |-> "directive", id |-> IdOf(x), g |-> globals["directive"]])
    /\ \E y \in DOMAIN transports : y # x /\ Registered(y)

\* ---- C15 --------------------------------------------------------------------
\* C15: an open event of a registered terminal and a directive it receives go
\* to exactly one callback, the one installed last for the terminal and the
\* category: the terminal's own callback and no global one when a set-callback
\* on the terminal came last, the global callback (with the terminal's id) and
\* not the terminal's own when setting the global callback came last, and to
\* none when none was installed.
C15_MostRecentCallback ==
  [][\A x \in DOMAIN transports :
       (Registered(x) /\ last'.x = x) =>
         /\ last'.op = "open" =>
              LET was == transports[x].latest["connection"]
                  now == transports'[x]
              IN  /\ was = 0 => Count(now, "onConnected") = 0 /\ Count(now, "global") = 0
                  /\ was = Own => Count(now, "onConnected") = 1 /\ Count(now, "global") = 0
                  /\ was \in GlobalCallbacks =>
                       /\ Count(now, "onConnected") = 1
                       /\ Count(now, "global") = 1
                       /\ Logged(now, "global",
                                 [cat |-> "connection", id |-> IdOf(x), g |-> was])
         /\ ( /\ last'.op = "message"
              /\ transports'[x].directivesReceived > transports[x].directivesReceived ) =>
              LET was == transports[x].latest["directive"]
                  now == transports'[x]
              IN  /\ was = 0 => Count(now, "onDirective") = 0 /\ Count(now, "global") = 0
                  /\ was = Own => Count(now, "onDirective") = 1 /\ Count(now, "global") = 0
                  /\ was \in GlobalCallbacks =>
                       /\ Count(now, "onDirective") = 1
                       /\ Count(now, "global") = 1
                       /\ Logged(now, "global",
                                 [cat |-> "directive", id |-> IdOf(x), g |-> was])
    ]_vars

\* a terminal whose own directive callback was set after the global one
\* received a directive, which went to its own callback only, while the other
\* terminal still carries the wrapper of the global callback
C15_Witness ==
  \E x \in DOMAIN transports :
    /\ Did("message", x)
    /\ globals["directive"] # 0
    /\ transports[x].latest["directive"] = Own
    /\ Count(transports[x], "onDirective") = 1
    /\ Count(transports[x], "global") = 0
    /\ \E y \in DOMAIN transports :
         /\ y # x /\ Registered(y)
         /\ transports[y].wrapper["directive"].id = IdOf(y)

\* ---- C16 --------------------------------------------------------------------
\* the terminal ids a connectAll awaits results of
AwaitedIds(b) == {b[y].id : y \in {z \in DOMAIN b : b[z].id # ""}}

\* the terminal ids of the registry
RegisteredIds == {t \in DOMAIN terminals : terminals[t] # 0}

\* the terminal ids of a set of results
ResultIds(results) == {r[1] : r \in results}

Counters == {"signalsSent", "audioSent", "directivesReceived", "audioReceived", "errors"}

\* C17, as the code has it: each of the five counters signals sent, binary
\* frames sent, directives received, binary frames received and errors never
\* becomes smaller in a step other than resetStatistics(), which sets the five
\* to zero and leaves the reconnect-attempt count as it is; the
\* reconnect-attempt count becomes smaller only in a successful open, which
\* sets it to zero.
C17_CountersAccumulate ==
  [][\A x \in DOMAIN transports :
       /\ IF last'.op = "resetStatistics" /\ last'.x = x
            THEN /\ \A c \in Counters : transports'[x][c] = 0
                 /\ transports'[x].reconnectAttempts = transports[x].reconnectAttempts
            ELSE \A c \in Counters : transports'[x][c] >= transports[x][c]
       /\ transports'[x].reconnectAttempts < transports[x].reconnectAttempts =>
            /\ last'.op = "open" /\ last'.x = x
            /\ transports'[x].reconnectAttempts = 0
    ]_vars

\* a reconnect attempt opened on a transport whose five counters all carry
\* what earlier connections counted
C17_Witness ==
  \E x \in DOMAIN transports :
    /\ Did("open", x)
    /\ last.sock.waiter = "timer"
    /\ transports[x].signalsSent = 1
    /\ transports[x].audioSent = 1
    /\ transports[x].directivesReceived = 1
    /\ transports[x].audioReceived = 1
    /\ transports[x].errors >= 1
    /\ transports[x].reconnectAttempts = 0

\* C17 as stated: the reconnect-attempt count accumulates like the five
\* counters and resetStatistics() resets it with them.
C17_AllCountersAccumulate ==
  [][\A x \in DOMAIN transports :
       IF last'.op = "resetStatistics" /\ last'.x = x
         THEN /\ \A c \in Counters : transports'[x][c] = 0
              /\ transports'[x].reconnectAttempts = 0
         ELSE /\ \A c \in Counters : transports'[x][c] >= transports[x][c]
              /\ transports'[x].reconnectAttempts >= transports[x].reconnectAttempts
    ]_vars

\* ---- C18 --------------------------------------------------------------------
\* C18: a sendSignal that writes the signal adds one to signalsSent, changes
\* no other counter and reports no error; one that writes nothing leaves
\* signalsSent as it is.  Not connected and too large, it changes no counter
\* and calls no callback.  Connected and with a signal that serializes to no
\* more than the size limit and whose write fails, it adds one to errors, calls the error callback (when
\* one is installed) once with SEND_FAILED, fails with SEND_FAILED, which the
\* registry returns, and leaves the transport connected.
C18_SignalsSent ==
  [][\A x \in DOMAIN transports :
       (last'.op = "sendSignal" /\ last'.x = x) =>
         LET was == transports[x]
             now == transports'[x]
             written == Count(now, "write") > 0
             serialized == ~Logged(now, "throw", 0)
         IN  /\ written =>
                  /\ Count(now, "write") = 1
                  /\ now.signalsSent = was.signalsSent + 1
                  /\ now.errors = was.errors
                  /\ Count(now, "onError") = 0
                  /\ Logged(now, "sdk_send", OK)
             /\ ~written =>
                  /\ now.signalsSent = was.signalsSent
                  /\ ~Logged(now, "sdk_send", OK)
             /\ (~was.connected \/ (serialized /\ last'.arg > MaxMessageSize)) =>
                  /\ ~written
                  /\ now.errors = was.errors
                  /\ Count(now, "onError") = 0
                  /\ Logged(now, "sdk_send",
                            IF ~was.connected THEN NOT_CONNECTED ELSE SIGNAL_TOO_LARGE)
             /\ (was.connected /\ serialized /\ last'.arg <= MaxMessageSize /\ ~written) =>
                  /\ now.errors = was.errors + 1
                  /\ "error" \in was.cbs =>
                       /\ Count(now, "onError") = 1
                       /\ Logged(now, "onError", SEND_FAILED)
                  /\ Logged(now, "throw", SEND_FAILED)
                  /\ Logged(now, "sdk_send", SEND_FAILED)
                  /\ now.connected
    ]_vars

\* after a signal was written, the write of another failed: the error was
\* counted and reported, and the transport is still connected
C18_Witness ==
  \E x \in DOMAIN transports :
    /\ Did("sendSignal", x)
    /\ Logged(transports[x], "throw", SEND_FAILED)
    /\ Logged(transports[x], "onError", SEND_FAILED)
    /\ transports[x].signalsSent = 1
    /\ transports[x].errors >= 1
    /\ transports[x].connected

\* ---- C19 --------------------------------------------------------------------
\* C19: in every step of a transport the error callback is called as many
\* times as the errors counter grows when an error callback is installed,
\* and not at all when none is; no step adds more than one to the counter.
C19_ErrorsCounted ==
  [][\A x \in DOMAIN transports :
       LET grown == transports'[x].errors - transports[x].errors IN
       /\ grown \in {0, 1}
       /\ Count(transports'[x], "onError") =
            IF "error" \in transports[x].cbs THEN grown ELSE 0
    ]_vars

\* a message that does not parse was reported to the error callback of a
\* transport that had counted an error before: the counter is at two
C19_Witness ==
  \E x \in DOMAIN transports :
    /\ Did("message", x)
    /\ Logged(transports[x], "onError", INTERNAL_ERROR)
    /\ Count(transports[x], "onError") = 1
    /\ transports[x].errors = 2

\* ---- C20 --------------------------------------------------------------------
\* what the registry operations return to their callers in a step
Returns(s) ==
  {i \in 1..Len(s.log) :
     s.log[i].ev \in {"sdk_connect", "sdk_disconnect", "sdk_send", "sdk_unregister"}}

\* the entries e of the log of s that carry something other than OK
Failed(s, e) == {i \in 1..Len(s.log) : s.log[i].ev = e /\ s.log[i].arg # OK}

\* C20: every code a registry operation returns, alone, in the results of
\* connectAll or disconnectAll or in the codes of sendSignalsBatch, is a value
\* of ErrorCode; each connect() promise that settles makes SDK.connect return
\* once, with a code other than OK when it was rejected; each error a
\* transport send throws makes the registry's send return a code other than OK;
\* and sendSignal, sendBinaryData, disconnect and unregisterTerminal return
\* exactly one code in the step of the call.
C20_CodesReturned ==
  [][/\ last'.ret \in ErrorCodes \cup {-1}
     /\ last'.op \in {"registerTerminal", "unregisterTerminal"} => last'.ret \in ErrorCodes
     /\ (last'.x = 0 /\ last'.op \in {"connect", "disconnect", "sendSignal",
                                       "sendBinaryData"}) => last'.ret \in ErrorCodes
     /\ \A r \in last'.results : r[2] \in ErrorCodes
     /\ \A i \in 1..Len(last'.codes) : last'.codes[i] \in ErrorCodes
     /\ last'.op = "sendSignalsBatch" => Len(last'.codes) = last'.arg
     /\ \A x \in DOMAIN transports :
          LET now == transports'[x] IN
          /\ \A i \in Returns(now) : now.log[i].arg \in ErrorCodes
          /\ Count(now, "sdk_connect") = Count(now, "settle_user")
          /\ Cardinality(Failed(now, "sdk_connect"))
               = Cardinality(Failed(now, "settle_user"))
          /\ Cardinality(Failed(now, "sdk_send")) = Count(now, "throw")
          /\ (last'.x = x /\ last'.op \in {"sendSignal", "sendBinaryData"}) =>
               Count(now, "sdk_send") = 1
          /\ (last'.x = x /\ last'.op = "disconnect") => Count(now, "sdk_disconnect") = 1
          /\ (last'.x = x /\ last'.op = "unregisterTerminal") =>
               Count(now, "sdk_unregister") = 1
    ]_vars

\* the connect() of a terminal timed out and SDK.connect returned
\* CONNECTION_TIMEOUT
C20_Witness ==
  \E x \in DOMAIN transports :
    /\ Did("timeout", x)
    /\ Logged(transports[x], "settle_user", CONNECTION_TIMEOUT)
    /\ Logged(transports[x], "sdk_connect", CONNECTION_TIMEOUT)

\* ---- C21 --------------------------------------------------------------------
\* transport x has just lost an established connection with the
\* should-reconnect flag set: handleDisconnect told the connection callback
Lost(x) ==
  /\ last.x = x
  /\ last.op \in {"close", "heartbeat"}
  /\ Logged(transports[x], "onConnected", 0)
  /\ ~transports[x].connected
  /\ transports[x].shouldReconnect
  /\ transports[x].maxReconnectAttempts <= 0

C22_Unregister ==
  [][\A t \in DOMAIN terminals :
       /\ (terminals[t] # 0 /\ last'.op = "unregisterTerminal" /\ last'.t = t) =>
            LET was == transports[terminals[t]]
                now == transports'[terminals[t]]
            IN  /\ last'.ret = OK
                /\ terminals'[t] = 0
                /\ \A u \in DOMAIN terminals : u # t => terminals'[u] = terminals[u]
                /\ was.connected =>
                     /\ ~now.connected
                     /\ now.ws = 0
                     /\ ~now.shouldReconnect
                     /\ now.heartbeatTimer = "null"
                     /\ now.reconnectTimer = "null"
                     /\ was.ws \in Sockets => was.socks[was.ws].state # "open"
                           \/ \E k \in Sockets : now.socks[k].state = "closing"
       /\ ( /\ terminals[t] = 0
            /\ last'.t = t
            /\ last'.op \in {"connect", "disconnect", "unregisterTerminal"} ) =>
            /\ last'.ret = TERMINAL_NOT_FOUND
            /\ terminals'[t] = 0
       /\ (terminals[t] = 0 /\ last'.op = "registerTerminal" /\ last'.t = t) =>
            /\ last'.ret = OK
            /\ terminals'[t] # 0
            /\ \A u \in DOMAIN terminals : u # t => terminals'[u] # terminals'[t]
            /\ LET new == transports'[terminals'[t]] IN
               /\ ~new.connected
               /\ new.ws = 0
               /\ Inert(new)
               /\ new.shouldReconnect
               /\ new.reconnectAttempts = 0
               /\ \A c \in Counters : new[c] = 0
    ]_vars

\* a Connected terminal was unregistered: its id is gone and its connection
\* is closing
C22_Witness ==
  /\ last.op = "unregisterTerminal"
  /\ last.ret = OK
  /\ terminals[last.t] = 0
  /\ ~transports[last.x].connected
  /\ ~transports[last.x].shouldReconnect
  /\ \E k \in Sockets : transports[last.x].socks[k].state = "closing"

\* ---- C23 --------------------------------------------------------------------
\* C23: a text frame that is not valid JSON adds one to errors, is reported to
\* the error callback (when one is installed) once, as INTERNAL_ERROR, and
\* changes nothing of the connection: the transport is Connected as before,
\* with the same handle, connections, heartbeat and reconnect timers, flag and
\* attempt count, directivesReceived and audioReceived are unchanged, and no
\* other callback is called.
C23_InvalidJson ==
  [][\A x \in DOMAIN transports :
       (last'.op = "message" /\ last'.cat = "invalid" /\ last'.x = x) =>
         LET was == transports[x]
             now == transports'[x]
         IN  /\ now.errors = was.errors + 1
             /\ Count(now, "onError") = IF "error" \in was.cbs THEN 1 ELSE 0
             /\ "error" \in was.cbs => Logged(now, "onError", INTERNAL_ERROR)
             /\ Len(now.log)
                  = Count(now, "onError")
                      + (IF "error" \in was.cbs /\ was.wrapper["error"] # NoWrapper
                           THEN 1 ELSE 0)
             /\ now.connected = was.connected
             /\ now.ws = was.ws
             /\ now.socks = was.socks
             /\ now.heartbeatTimer = was.heartbeatTimer
             /\ now.hbOrphans = was.hbOrphans
             /\ now.reconnectTimer = was.reconnectTimer
             /\ now.rcOrphans = was.rcOrphans
             /\ now.shouldReconnect = was.shouldReconnect
             /\ now.reconnectAttempts = was.reconnectAttempts
             /\ now.directivesReceived = was.directivesReceived
             /\ now.audioReceived = was.audioReceived
    ]_vars

\* a Connected transport with its heartbeat running received a text frame
\* that is not JSON and reported it; it is Connected, the heartbeat timer is
\* pending and no reconnect timer is
C23_Witness ==
  \E x \in DOMAIN transports :
    /\ Did("message", x)
    /\ last.cat = "invalid"
    /\ Logged(transports[x], "onError", INTERNAL_ERROR)
    /\ transports[x].connected
    /\ transports[x].heartbeatTimer = "pending"
    /\ PendingReconnectTimers(transports[x]) = 0
    /\ transports[x].directivesReceived = 0

\* ---- C24 --------------------------------------------------------------------
\* XOR-decoding of a frame: bytes 14.. with the mask key found at bytes 10..13
\* (counted from 0)
unmask(frame) ==
  LET key == SubSeq(frame, 11, 14) IN
  [i \in 1..(Len(frame) - 14) |-> xor(frame[14 + i], key[((i - 1) % 4) + 1])]

\* C24: the frame sendBinaryData builds carries the mask key at bytes 10..13
\* and after them each byte of the payload XORed with the byte of the key at
\* its index modulo 4, so that XOR-decoding the frame with the key it carries
\* gives the payload back.
C24_MaskRoundTrip ==
  (computed.fn = "sendBinaryData" /\ computed.frame # <<>>) =>
     /\ SubSeq(computed.frame, 11, 14) = computed.maskKey
     /\ \A i \in 1..Len(computed.data) :
          computed.frame[14 + i]
            = xor(computed.data[i], computed.maskKey[((i - 1) % 4) + 1])
     /\ unmask(computed.frame) = computed.data

\* the frame of a payload of 160 bytes, masked with a key of four different
\* bytes, was built: what it carries is not the payload
C24_Witness ==
  /\ computed.fn = "sendBinaryData"
  /\ computed.frame # <<>>
  /\ Len(computed.data) = 160
  /\ computed.maskKey = <<1, 2, 4, 8>>
  /\ SubSeq(computed.frame, 15, Len(computed.frame)) # computed.data

\* ---- C27 --------------------------------------------------------------------
\* C27: the frame sendBinaryData builds for a payload of n <= 65535 bytes has
\* 14 + n bytes; byte 0 is 0x82; bytes 1 and 2 are n, high byte first; bytes
\* 3..9 are the first seven characters of the upper-cased tag, then zeros.
C27_FrameHeader ==
  (computed.fn = "sendBinaryData" /\ computed.frame # <<>>) =>
     LET n == Len(computed.data)
         tag == computed.dataType
     IN  /\ n <= MaxBinaryLen
         /\ Len(computed.frame) = 14 + n
         /\ computed.frame[1] = 130
         /\ computed.frame[2] \in 0..255 /\ computed.frame[3] \in 0..255
         /\ 256 * computed.frame[2] + computed.frame[3] = n
         /\ \A i \in 1..7 :
              computed.frame[3 + i] =
                IF i > Len(tag) THEN 0
                ELSE IF tag[i] >= 97 /\ tag[i] <= 122 THEN tag[i] - 32 ELSE tag[i]

\* the frame of an enumerated payload was built with a tag of nine characters,
\* lower and upper case
C27_Witness ==
  /\ computed.fn = "sendBinaryData"
  /\ computed.frame # <<>>
  /\ Len(computed.dataType) = 9
  /\ Len(computed.data) = MaxPayload
  /\ SubSeq(computed.frame, 4, 10) = <<80, 67, 77, 49, 54, 75, 72>>

\* min(base * factor^attempts, maxDelay) in exact arithmetic, for a factor of
\* 1, 2 or 4 and base and maxDelay below 2^10 and 2^20
ExactDelay(base, factor, maxDelay, attempts) ==
  LET e == (IF factor = 1 THEN 0 ELSE IF factor = 2 THEN 1 ELSE 2) * attempts
  IN  IF base = 0 THEN 0
      ELSE IF e > 20 THEN maxDelay
      ELSE IF base * 2^e <= maxDelay THEN base * 2^e ELSE maxDelay

\* C25: for every attempts >= 0 and every configuration with base >= 0,
\* backoffFactor >= 1 and maxReconnectIntervalMs >= 0, the delay before jitter
\* is min(base * factor^attempts, maxReconnectIntervalMs), is not smaller for
\* attempts + 1, and is at most maxReconnectIntervalMs.
C25_BackoffDelay ==
  (computed.fn = "calculateBackoffDelay" /\ computed.done) =>
    /\ computed.delay = Num(ExactDelay(computed.base, computed.factor,
                                       computed.maxDelay, computed.attempts))
    /\ computed.nextDelay.kind = "num"
    /\ computed.delay.v <= computed.nextDelay.v
    /\ computed.delay.v <= computed.maxDelay

\* C26: for every attempts >= 0 and every random draw, the delay returned lies
\* between d * (1 - jitterFactor) and d * (1 + jitterFactor), where d is
\* min(base * factor^attempts, maxDelay), and within
\* [0, maxDelay * (1 + jitterFactor)], also when jitterFactor > 1.
C26_JitterRange ==
  (computed.fn = "calculateBackoffDelay" /\ computed.done) =>
    LET d == ExactDelay(computed.base, computed.factor, computed.maxDelay,
                        computed.attempts)
    IN  /\ computed.out.kind = "num"
        /\ 10 * computed.out.v >= d * (10 - computed.jitter)
        /\ 10 * computed.out.v <= d * (10 + computed.jitter)
        /\ computed.out.v >= 0
        /\ 10 * computed.out.v <= computed.maxDelay * (10 + computed.jitter)

\* a keepalive of transport x fails in the step: x is Connected, idle, a
\* heartbeat timer fires and no keepalive is written
KeepaliveFails(x) ==
  /\ transports[x].connected
  /\ isIdle(transports[x])
  /\ last'.op = "heartbeat" /\ last'.x = x
  /\ ~Logged(transports'[x], "ping", 0)

\* C28: a keepalive that fails while the transport is Connected is handled as
\* an unsolicited close is: afterwards the transport is not connected, no
\* heartbeat timer is pending, the connection callback (when installed) was
\* invoked with connected=false and never with true, and one more reconnect
\* timer is pending if the should-reconnect flag is set and attempts remain,
\* and none more otherwise.
C28_FailedKeepalive ==
  [][\A x \in Transports :
       KeepaliveFails(x) =>
         /\ ~transports'[x].connected
         /\ transports'[x].ws = 0
         /\ PendingHeartbeatTimers(transports'[x]) = 0
         /\ "connection" \in transports[x].cbs =>
              /\ Logged(transports'[x], "onConnected", 0)
              /\ ~Logged(transports'[x], "onConnected", 1)
         /\ PendingReconnectTimers(transports'[x])
              = PendingReconnectTimers(transports[x])
                  + (IF transports[x].shouldReconnect /\ AttemptsRemain(transports[x])
                       THEN 1 ELSE 0)
    ]_vars

\* a keepalive failed on a transport with the connection callback installed,
\* and a reconnect timer is pending
C28_Witness ==
  \E x \in Transports :
    /\ Did("heartbeat", x)
    /\ ~Logged(transports[x], "ping", 0)
    /\ Logged(transports[x], "onConnected", 0)
    /\ ~transports[x].connected
    /\ PendingHeartbeatTimers(transports[x]) = 0
    /\ transports[x].reconnectTimer = "pending"

\* at most one heartbeat timer of transport s is pending, and none unless s
\* is connected
HeartbeatWhileConnected(s) ==
  /\ PendingHeartbeatTimers(s) <= 1
  /\ PendingHeartbeatTimers(s) >= 1 => s.connected

\* C29: in every reachable state a pending heartbeat timer implies
\* isConnected() and at most one heartbeat timer is pending per transport;
\* every step that leaves Connected is a close event (alone, or behind the
\* error event of a failed attempt), a failed keepalive or disconnect(), and
\* leaves no heartbeat timer pending; and a step after which a heartbeat timer
\* is pending while none was before is an open event.
C29_HeartbeatOnlyConnected ==
  /\ \A x \in Transports : HeartbeatWhileConnected(transports[x])
  /\ [][\A x \in Transports :
          /\ HeartbeatWhileConnected(transports'[x])
          /\ (transports[x].connected /\ ~transports'[x].connected) =>
               /\ PendingHeartbeatTimers(transports'[x]) = 0
               /\ last'.op \in {"close", "fail", "heartbeat", "disconnect"}
          /\ (PendingHeartbeatTimers(transports[x]) = 0
                /\ PendingHeartbeatTimers(transports'[x]) >= 1) =>
               (last'.op = "open" /\ last'.x = x)
      ]_vars

\* a second connection of a Connected transport has opened and started the
\* heartbeat again: one heartbeat timer is pending
C29_Witness ==
  \E x \in Transports :
    /\ Did("open", x)
    /\ \A k \in Sockets : transports[x].socks[k].state = "open"
    /\ transports[x].connected
    /\ PendingHeartbeatTimers(transports[x]) = 1

\* C30: at every tick of the heartbeat of a Connected transport a keepalive
\* is sent (written, or failing and taken for the loss of the connection) if
\* and only if nothing was sent or received since the tick before (or the
\* open event), which was heartbeatIntervalMs ago, and the next tick is
\* scheduled whether or not a keepalive was written; a signal written, a
\* binary frame written and a message received each are activity, and a
\* write that fails is none.
C30_KeepaliveWhenIdle ==
  [][\A x \in Transports :
       LET was == transports[x]
           now == transports'[x]
       IN  /\ (was.connected /\ last'.op = "heartbeat" /\ last'.x = x) =>
                /\ ~was.activity <=> (Logged(now, "ping", 0) \/ ~now.connected)
                /\ now.connected => now.heartbeatTimer = "pending"
                /\ was.activity => now.connected
           /\ (last'.x = x /\ last'.op \in {"sendSignal", "sendBinaryData"}) =>
                IF Logged(now, "sdk_send", OK)
                  THEN now.activity
                  ELSE now.activity = was.activity
           /\ (last'.x = x /\ last'.op = "message") => now.activity
    ]_vars

\* a tick after a signal was written: no keepalive, the transport is still
\* connected and the next tick is scheduled
C30_Witness ==
  \E x \in Transports :
    /\ Did("heartbeat", x)
    /\ transports[x].signalsSent = 1
    /\ transports[x].connected
    /\ ~Logged(transports[x], "ping", 0)
    /\ transports[x].heartbeatTimer = "pending"

\* ---- C31 --------------------------------------------------------------------
\* C31: when an error event of the established connection arrives at a
\* Connected transport, then after the error handler alone, with no close
\* event yet, the transport is not connected, no heartbeat timer is pending,
\* the connection callback (when installed) was invoked with connected=false,
\* and one more reconnect timer is pending if the should-reconnect flag is set
\* and attempts remain.
C31_ErrorDisconnects ==
  [][\A x \in Transports :
       ( /\ transports[x].connected
         /\ last'.op = "error" /\ last'.x = x
         /\ last'.sock.state = "open" ) =>
         /\ ~transports'[x].connected
         /\ PendingHeartbeatTimers(transports'[x]) = 0
         /\ "connection" \in transports[x].cbs =>
              Logged(transports'[x], "onConnected", 0)
         /\ (transports[x].shouldReconnect /\ AttemptsRemain(transports[x])) =>
              PendingReconnectTimers(transports'[x])
                = PendingReconnectTimers(transports[x]) + 1
    ]_vars

\* ---- C32 --------------------------------------------------------------------
\* the connection the handle of transport s names is established
CurrentOpen(s) == s.ws \in Sockets /\ s.socks[s.ws].state = "open"

\* C32: while the transport is Connected and the connection its handle names
\* is established, an event of another connection of the transport (one that
\* is closing or still in its handshake) leaves it Connected.
C32_StaleEvent ==
  [][\A x \in Transports :
       ( /\ transports[x].connected
         /\ CurrentOpen(transports[x])
         /\ last'.x = x
         /\ last'.op \in {"close", "fail", "error", "timeout"}
         /\ last'.sock.state # "open" ) =>
         transports'[x].connected
    ]_vars

\* ---- C33 --------------------------------------------------------------------
\* C33: with a positive maxReconnectAttempts, the reconnectAttempts that
\* getStatistics() reports is at most maxReconnectAttempts in every reachable
\* state.
C33_AttemptsBounded ==
  \A x \in Transports :
    transports[x].maxReconnectAttempts > 0 =>
      getStatistics(transports[x]).reconnectAttempts
        <= transports[x].maxReconnectAttempts

\* ---- C34 --------------------------------------------------------------------
\* C34: the open event of a connection whose connect() has failed with
\* ConnectionTimeout (its timeout timer has fired) leaves a transport that is
\* not connected not connected and without a heartbeat timer, and leaves
\* reconnectAttempts as it is.
C34_DeadAttempt ==
  [][\A x \in Transports :
       ( /\ last'.op = "open" /\ last'.x = x
         /\ ~last'.sock.timeout
         /\ ~transports[x].connected ) =>
         /\ ~transports'[x].connected
         /\ PendingHeartbeatTimers(transports'[x]) = 0
         /\ transports'[x].reconnectAttempts = transports[x].reconnectAttempts
    ]_vars

\* ---- C35 --------------------------------------------------------------------
\* the callbacks of the application that transport s invoked in the last step
Invoked(s) ==
  {i \in 1..Len(s.log) :
     s.log[i].ev \in {"onConnected", "onError", "onClose", "onDirective", "onAudioData"}}

\* C35: the transport of a terminal that was unregistered has no reconnect
\* timer and no heartbeat timer pending, and no step of it after
\* unregisterTerminal has returned creates a connection, makes it Connected
\* or invokes a callback.
C35_InertAfterUnregister ==
  /\ [](\A x \in Transports :
          ~Registered(x) =>
            /\ PendingReconnectTimers(transports[x]) = 0
            /\ PendingHeartbeatTimers(transports[x]) = 0)
  /\ [][\A x \in Transports :
          (~Registered(x) /\ last'.x = x /\ last'.op # "registerTerminal") =>
            /\ Connections(transports'[x]) <= Connections(transports[x])
            /\ ~transports'[x].connected
            /\ Invoked(transports'[x]) = {}
       ]_vars

\* ---- C36 --------------------------------------------------------------------
\* C36: in every reachable state a transport for which isConnected() is true
\* holds a connection handle (this.ws is not null), so that sendMessage and
\* sendBinary do not reject a write for want of one.
C36_ConnectedHasHandle ==
  \A x \in Transports : transports[x].connected => transports[x].ws # 0

\* ---- C37 --------------------------------------------------------------------
\* C37: in every reachable state at most one reconnect timer of a transport is
\* pending, and a pending one is the timer this.reconnectTimer names.
C37_OneReconnectTimer ==
  \A x \in Transports :
    /\ PendingReconnectTimers(transports[x]) <= 1
    /\ transports[x].rcOrphans = 0

\* ---- C38 --------------------------------------------------------------------
\* C38: with the close callback installed, disconnect() of a Connected
\* transport invokes it once, the close event of a connection that
\* disconnect() has closed does not invoke it again, and the close event of
\* an established connection that nothing has closed invokes it once.
C38_CloseCallbackOnce ==
  [][\A x \in Transports :
       /\ ( /\ last'.op = "disconnect" /\ last'.x = x
            /\ transports[x].connected
            /\ "close" \in transports[x].cbs ) =>
            Count(transports'[x], "onClose") = 1
       /\ ( /\ last'.op = "close" /\ last'.x = x
            /\ "close" \in transports[x].cbs ) =>
            Count(transports'[x], "onClose")
              = (IF last'.sock.state = "closing" THEN 0 ELSE 1)
    ]_vars
====
